---- MODULE Spec2Model ----
(***************************************************************************)
(* ContentsOnly document cropper: the calibration store                    *)
(* (scanner/calibration.py), the manual-crop review flow                   *)
(* (scanner/manual_crop.py) and the document locator                       *)
(* (scanner/image_processor.py).                                           *)
(*                                                                         *)
(* Number representation.  Python floats are modelled exactly:             *)
(*   - ratios used as keys (aspect ratio, area ratio) are integers in      *)
(*     hundredths (1.41 is 141, an area ratio of 0.5 is 50);               *)
(*   - tolerance bands are integers in units of 10^-8 (RangeUnit);         *)
(*   - running averages are normalised fractions <<num, den>>.             *)
(***************************************************************************)
EXTENDS Integers, Sequences, FiniteSets, TLC

\* Python None where an image, a point list or a size is expected (these are
\* identified by the positive number of the image they come from)
None == 0
\* Python None where a colour array is expected
NoColor == <<>>

Abs(x) == IF x < 0 THEN -x ELSE x
Max2(a, b) == IF a >= b THEN a ELSE b
Min2(a, b) == IF a <= b THEN a ELSE b
Max3(a, b, c) == Max2(a, Max2(b, c))

RECURSIVE Gcd(_, _)
Gcd(a, b) == IF b = 0 THEN a ELSE Gcd(b, a % b)

\* A non-negative fraction num/den in lowest terms.
Frac(num, den) == LET g == Gcd(num, den) IN <<num \div g, den \div g>>
FracOfInt(n) == <<n, 1>>

\* a/b < c/d for non-negative fractions, by continued-fraction expansion
\* (no product of two large numbers is formed).
RECURSIVE FracLess(_, _, _, _)
FracLess(a, b, c, d) ==
    LET q1 == a \div b
        q2 == c \div d
        r1 == a % b
        r2 == c % d
    IN  IF q1 # q2 THEN q1 < q2
        ELSE IF r2 = 0 THEN FALSE
        ELSE IF r1 = 0 THEN TRUE
        ELSE FracLess(d, r2, b, r1)

(***************************************************************************)
(* Bounds of the model.                                                    *)
(***************************************************************************)
\* successful save_calibration calls explored
MaxCommits == 8
\* commits merged into one cell (keeps the 10^-8 band arithmetic exact)
MaxCellCommits == 4
\* load_images_from_folder calls explored
MaxLoads == 1
\* successful save_crop calls explored
MaxCrops == 2
\* contours one locator method passes to expansion and validation
MaxAttempts == 2
\* files one process_folder call enumerates
MaxFiles == 2
\* contours one call of the contour search is given
MaxContours == 2
\* saved crops in the history when a suggestion is asked for
MaxHistory == 11

(***************************************************************************)
(* Program constants.                                                      *)
(***************************************************************************)
max_cells == 5
MaxBgSamples == 50
\* history entries a suggestion is computed from
MaxRecent == 10

\* 1.0 in band units (10^-8)
RangeUnit == 100 * 1000 * 1000
\* one hundredth in band units
Hundredth == 1000 * 1000

(***************************************************************************)
(* Calibration images.  What OpenCV measures on an image and its annotated *)
(* quad is an input of the model: the aspect ratio of the minimum-area     *)
(* rectangle (hundredths), the area ratio (hundredths), the median         *)
(* document and background colours (BGR), the clamped colour threshold,    *)
(* the clamped edge threshold and the number of background samples.        *)
(***************************************************************************)
Obs ==
    << [aspect |-> 141, area |-> 50, color |-> <<200, 210, 220>>,
        bg |-> <<40, 40, 40>>, cthr |-> 40, ethr |-> 80, nbg |-> 18],
       [aspect |-> 143, area |-> 52, color |-> <<180, 180, 180>>,
        bg |-> <<60, 50, 40>>, cthr |-> 25, ethr |-> 40, nbg |-> 18],
       [aspect |-> 100, area |-> 50, color |-> <<250, 250, 250>>,
        bg |-> <<10, 10, 10>>, cthr |-> 60, ethr |-> 150, nbg |-> 8],
       [aspect |-> 200, area |-> 30, color |-> <<200, 210, 220>>,
        bg |-> <<40, 40, 40>>, cthr |-> 40, ethr |-> 80, nbg |-> 18],
       [aspect |-> 300, area |-> 20, color |-> <<128, 128, 128>>,
        bg |-> <<200, 200, 200>>, cthr |-> 25, ethr |-> 40, nbg |-> 8],
       [aspect |-> 500, area |-> 10, color |-> <<90, 100, 110>>,
        bg |-> <<40, 40, 40>>, cthr |-> 30, ethr |-> 50, nbg |-> 18],
       [aspect |-> 800, area |-> 6, color |-> <<250, 250, 250>>,
        bg |-> <<10, 10, 10>>, cthr |-> 60, ethr |-> 150, nbg |-> 8],
       [aspect |-> 120, area |-> 60, color |-> <<100, 110, 120>>,
        bg |-> <<30, 30, 30>>, cthr |-> 50, ethr |-> 100, nbg |-> 18],
       \* three square pages of growing area: the third is within tolerance
       \* of the cells of both others, which are not within tolerance of
       \* each other
       [aspect |-> 100, area |-> 35, color |-> <<200, 210, 220>>,
        bg |-> <<40, 40, 40>>, cthr |-> 40, ethr |-> 80, nbg |-> 8],
       [aspect |-> 110, area |-> 55, color |-> <<200, 210, 220>>,
        bg |-> <<40, 40, 40>>, cthr |-> 40, ethr |-> 80, nbg |-> 8],
       [aspect |-> 100, area |-> 45, color |-> <<200, 210, 220>>,
        bg |-> <<40, 40, 40>>, cthr |-> 40, ethr |-> 80, nbg |-> 8],
       \* a wide page that fills its (wide) photograph
       [aspect |-> 350, area |-> 90, color |-> <<200, 210, 220>>,
        bg |-> <<40, 40, 40>>, cthr |-> 40, ethr |-> 80, nbg |-> 8],
       \* a thin strip (a ruler, a receipt edge) on a large photograph
       [aspect |-> 1500, area |-> 2, color |-> <<200, 210, 220>>,
        bg |-> <<40, 40, 40>>, cthr |-> 40, ethr |-> 80, nbg |-> 18] >>

Samples == 1 .. Len(Obs)

(***************************************************************************)
(* CalibrationConfig.  crop_points and target_size stand for every field   *)
(* that one analysis sets and that is afterwards only copied (the          *)
(* document size, area in pixels, colour statistics, image size): their    *)
(* value is the image the analysis ran on.                                 *)
(***************************************************************************)
CalibrationConfig ==
    [ crop_points |-> None, target_size |-> None,
      avg_color |-> NoColor, avg_bg_color |-> NoColor,
      color_threshold |-> FracOfInt(0), edge_threshold |-> FracOfInt(0),
      area_range |-> <<0, 0>>, aspect_ratio_range |-> <<0, 0>>,
      document_area_ratio |-> 0, document_aspect_ratio |-> 0,
      bg_samples |-> <<>>,
      calibrated |-> FALSE, calibration_samples |-> 0 ]

ColorOf(bgr) == [c \in 1 .. 3 |-> FracOfInt(bgr[c])]

\* area_range = (max(0.05, r*0.5), min(0.95, r*1.5))
AreaRange(area) ==
    << Max2(5 * Hundredth, area * (Hundredth \div 2)),
       Min2(95 * Hundredth, area * ((3 * Hundredth) \div 2)) >>

\* aspect_ratio_range = (max(1.0, a*0.7), min(10.0, a*1.3))
AspectRange(aspect) ==
    << Max2(RangeUnit, aspect * ((7 * Hundredth) \div 10)),
       IF aspect * 13 >= 10000 THEN 10 * RangeUnit
       ELSE aspect * ((13 * Hundredth) \div 10) >>

AnalyzeGeometry(cfg, s) ==
    [cfg EXCEPT !.document_area_ratio = Obs[s].area,
                !.document_aspect_ratio = Obs[s].aspect,
                !.target_size = s,
                !.area_range = AreaRange(Obs[s].area),
                !.aspect_ratio_range = AspectRange(Obs[s].aspect)]

AnalyzeColors(cfg, s) ==
    [cfg EXCEPT !.avg_color = ColorOf(Obs[s].color),
                !.avg_bg_color = ColorOf(Obs[s].bg),
                !.bg_samples = [i \in 1 .. Obs[s].nbg |-> s],
                !.color_threshold = FracOfInt(Obs[s].cthr)]

AnalyzeEdges(cfg, s) ==
    [cfg EXCEPT !.edge_threshold = FracOfInt(Obs[s].ethr)]

\* Variant of CountSample: the sample is not counted.
MarkCalibratedOnly(cfg) == [cfg EXCEPT !.calibrated = TRUE]

CountSample(cfg) ==
    [cfg EXCEPT !.calibration_samples = @ + 1, !.calibrated = TRUE]

AnalyzeCalibrationImage(cfg, s) ==
    CountSample(AnalyzeEdges(AnalyzeColors(AnalyzeGeometry(
        [cfg EXCEPT !.crop_points = s], s), s), s))

(***************************************************************************)
(* CalibrationCell: a CalibrationConfig plus the format keys.  commits is  *)
(* a history field (not in the program): the number of save_calibration    *)
(* calls that went into the cell.                                          *)
(***************************************************************************)
ConfigFields == DOMAIN CalibrationConfig

CalibrationCell ==
    [ aspect_ratio |-> 0, size_category |-> "", commits |-> 0,
      crop_points |-> None, target_size |-> None,
      avg_color |-> NoColor, avg_bg_color |-> NoColor,
      color_threshold |-> FracOfInt(0), edge_threshold |-> FracOfInt(0),
      area_range |-> <<0, 0>>, aspect_ratio_range |-> <<0, 0>>,
      document_area_ratio |-> 0, document_aspect_ratio |-> 0,
      bg_samples |-> <<>>,
      calibrated |-> FALSE, calibration_samples |-> 0 ]

copy_from_config(cell, cfg) ==
    [f \in DOMAIN cell |-> IF f \in ConfigFields THEN cfg[f] ELSE cell[f]]

to_config(cell) == [f \in ConfigFields |-> cell[f]]

\* Variant of matches_format: "or" in place of "and".
matches_format_either(cell, aspect, area) ==
    \/ Abs(cell.aspect_ratio - aspect) * 5 < Max3(cell.aspect_ratio, aspect, 10)
    \/ Abs(cell.document_area_ratio - area) * 10
           < 3 * Max3(cell.document_area_ratio, area, 1)

\* abs(self.aspect_ratio - a) / max(self.aspect_ratio, a, 0.1) < 0.2 and
\* abs(self.document_area_ratio - r) / max(self.document_area_ratio, r, 0.01) < 0.3
matches_format(cell, aspect, area) ==
    /\ Abs(cell.aspect_ratio - aspect) * 5 < Max3(cell.aspect_ratio, aspect, 10)
    /\ Abs(cell.document_area_ratio - area) * 10
           < 3 * Max3(cell.document_area_ratio, area, 1)

\* 1/(1 + 2*aspect_diff + 1.5*size_diff) * (1 + 0.1*samples), as <<num, den>>
get_match_score(cell, aspect, area) ==
    IF ~cell.calibrated THEN <<0, 1>>
    ELSE LET mA == Max3(cell.aspect_ratio, aspect, 10)
             dA == Abs(cell.aspect_ratio - aspect)
             mR == Max3(cell.document_area_ratio, area, 1)
             dR == Abs(cell.document_area_ratio - area)
         IN  << 2 * mA * mR * (10 + cell.calibration_samples),
                10 * (2 * mA * mR + 4 * dA * mR + 3 * dR * mA) >>

\* Variant of ScoreGreater: "score >= best_score".
ScoreAtLeast(x, y) == ~FracLess(x[1], x[2], y[1], y[2])

\* score > best_score
ScoreGreater(x, y) == FracLess(y[1], y[2], x[1], x[2])

SizeCategory(area) ==
    IF area < 15 THEN "small" ELSE IF area < 35 THEN "medium" ELSE "large"

determine_format(s) == <<Obs[s].aspect, SizeCategory(Obs[s].area)>>

\* The loop of _find_matching_cell from cell i on; best is the index of
\* best_cell (0 for None).
RECURSIVE FindMatchingFrom(_, _, _, _, _)
FindMatchingFrom(cs, aspect, area, i, best) ==
    IF i > Len(cs) THEN best
    ELSE LET bestScore == IF best = 0 THEN <<0, 1>>
                          ELSE get_match_score(cs[best], aspect, area)
             better == /\ matches_format(cs[i], aspect, area)
                       /\ ScoreGreater(get_match_score(cs[i], aspect, area),
                                       bestScore)
         IN  FindMatchingFrom(cs, aspect, area, i + 1,
                              IF better THEN i ELSE best)

\* Variant of find_matching_cell: only the newest cell is looked at.
find_matching_newest(cs, aspect, area) ==
    FindMatchingFrom(cs, aspect, area, Max2(Len(cs), 1), 0)

find_matching_cell(cs, aspect, area) == FindMatchingFrom(cs, aspect, area, 1, 0)

FracMul(x, y) == Frac(x[1] * y[1], x[2] * y[2])
FracAdd(x, y) == Frac(x[1] * y[2] + y[1] * x[2], x[2] * y[2])

\* Variant of WeightOld: the weight taken before the sample count is increased.
WeightOldBeforeIncrement(n) == <<n - 2, n - 1>>

WeightOld(n) == <<n - 1, n>>
WeightNew(n) == <<1, n>>

\* old * weight_old + new * weight_new
WeightedAverage(old, new, n) ==
    FracAdd(FracMul(old, WeightOld(n)), FracMul(new, WeightNew(n)))

MergeColor(old, new, n) ==
    IF new = NoColor THEN old
    ELSE IF old = NoColor THEN new
    ELSE [c \in 1 .. 3 |-> WeightedAverage(old[c], new[c], n)]

Times09(x) == (x \div 10) * 9
Times11(x) == (x \div 10) * 11

\* Variant of MergeAreaRange: the bands are intersected instead of united.
MergeAreaRangeNarrowing(old, new) ==
    IF new[1] > 0
    THEN << Max2(old[1], new[1]), Min2(old[2], new[2]) >>
    ELSE old

MergeAreaRange(old, new) ==
    IF new[1] > 0
    THEN << Times09(Min2(old[1], new[1])), Times11(Max2(old[2], new[2])) >>
    ELSE old

MergeAspectRange(old, new) ==
    IF new[1] > 0
    THEN << Max2(RangeUnit, Times09(Min2(old[1], new[1]))),
            Min2(10 * RangeUnit, Times11(Max2(old[2], new[2]))) >>
    ELSE old

LastN(seq, n) ==
    IF Len(seq) > n THEN SubSeq(seq, Len(seq) - n + 1, Len(seq)) ELSE seq

MergeBgSamples(old, new) ==
    IF new # <<>> THEN LastN(old \o new, MaxBgSamples) ELSE old

merge_calibration(cell, cfg) ==
    LET n == cell.calibration_samples + 1
    IN  [cell EXCEPT
           !.calibration_samples = n,
           !.commits = @ + 1,
           !.avg_color = MergeColor(@, cfg.avg_color, n),
           !.avg_bg_color = MergeColor(@, cfg.avg_bg_color, n),
           !.color_threshold = WeightedAverage(@, cfg.color_threshold, n),
           !.edge_threshold = WeightedAverage(@, cfg.edge_threshold, n),
           !.area_range = MergeAreaRange(@, cfg.area_range),
           !.aspect_ratio_range = MergeAspectRange(@, cfg.aspect_ratio_range),
           !.bg_samples = MergeBgSamples(@, cfg.bg_samples)]

create_new_cell(cfg, aspect, category) ==
    copy_from_config([CalibrationCell EXCEPT !.aspect_ratio = aspect,
                                             !.size_category = category,
                                             !.commits = 1], cfg)

\* list.sort(key=lambda c: c.calibration_samples): stable, ascending
InsertBySamples(sorted, c) ==
    LET k == Cardinality({i \in 1 .. Len(sorted) :
                 sorted[i].calibration_samples <= c.calibration_samples})
    IN  SubSeq(sorted, 1, k) \o <<c>> \o SubSeq(sorted, k + 1, Len(sorted))

RECURSIVE SortBySamples(_)
SortBySamples(cs) ==
    IF cs = <<>> THEN <<>>
    ELSE InsertBySamples(SortBySamples(SubSeq(cs, 1, Len(cs) - 1)), cs[Len(cs)])

\* Variant of MostSampled: min in place of max.
LeastSampled(cs) ==
    CHOOSE i \in 1 .. Len(cs) :
        /\ \A j \in 1 .. Len(cs) :
               cs[j].calibration_samples >= cs[i].calibration_samples
        /\ \A j \in 1 .. i - 1 :
               cs[j].calibration_samples > cs[i].calibration_samples

\* max(cells, key=lambda c: c.calibration_samples): the first maximal cell
MostSampled(cs) ==
    CHOOSE i \in 1 .. Len(cs) :
        /\ \A j \in 1 .. Len(cs) :
               cs[j].calibration_samples <= cs[i].calibration_samples
        /\ \A j \in 1 .. i - 1 :
               cs[j].calibration_samples < cs[i].calibration_samples

\* Variant of AtCapacity: ">" in place of ">=".
AtCapacityOffByOne(cs) == Len(cs) > max_cells

AtCapacity(cs) == Len(cs) >= max_cells

\* Variant of EvictFewestSamples: pop(0) without the sort.
EvictOldest(cs) == Tail(cs)

\* the sort and pop(0) that make room for a new cell
EvictFewestSamples(cs) == Tail(SortBySamples(cs))

\* _update_main_config: the manager's config after a commit
update_main_config(cfg, cs) ==
    IF cs = <<>> THEN cfg ELSE to_config(cs[MostSampled(cs)])

\* the cell list after save_calibration has analysed the image into cfg
CommitCells(cs, cfg, s) ==
    LET fmt == determine_format(s)
        m == find_matching_cell(cs, fmt[1], cfg.document_area_ratio)
    IN  IF m # 0
        THEN [cs EXCEPT ![m] = merge_calibration(cs[m], cfg)]
        ELSE Append(IF AtCapacity(cs) THEN EvictFewestSamples(cs) ELSE cs,
                    create_new_cell(cfg, fmt[1], fmt[2]))

(***************************************************************************)
(* State.                                                                  *)
(*   calibration_cells, config, current_points, current_image,             *)
(*   image_paths, current_index: the fields of CalibrationManager.         *)
(*   current_points is the number of clicked points; the four points of a  *)
(*   complete quadrilateral are the ones Obs measures for the image.       *)
(*   appConfig: the CalibrationConfig object that app.py creates and hands *)
(*   to the manager, the manual-crop manager and the processors.           *)
(*   aliased: manager.config is still that object (true until the first    *)
(*   commit rebinds manager.config to a fresh copy of the best cell).      *)
(* History variables (not in the program):                                 *)
(*   lastCommit: outcome of the latest save_calibration call;              *)
(*   ncommits: successful save_calibration calls so far;                   *)
(*   loads: load_images_from_folder calls so far;                          *)
(*   committed: the images of the successful save_calibration calls, in    *)
(*   the order of the calls.                                               *)
(***************************************************************************)
VARIABLES calibration_cells, config, appConfig, aliased,
          image_paths, current_index, current_image, current_points,
          lastCommit, ncommits, loads, committed

(***************************************************************************)
(* ManualCropManager and its ManualCropConfig.  The manager's fields carry *)
(* the prefix crop_ where CalibrationManager has a field of the same name. *)
(*   crop_attached: the manager was given a calibration profile (app.py    *)
(*   passes the application's shared CalibrationConfig; the constructor's  *)
(*   default is None).                                                     *)
(*   crop_current_index, saved_indices, skipped_indices: 0-based, as in    *)
(*   the program.                                                          *)
(*   manual_config: crop_points_history (each entry the image whose        *)
(*   quadrilateral was saved) and samples_count.                           *)
(***************************************************************************)
VARIABLES crop_attached, crop_image_paths, crop_current_index,
          crop_current_image, crop_current_points,
          saved_indices, skipped_indices, manual_config

(***************************************************************************)
(* One run of CalibratedImageProcessor.find_document_auto.                 *)
(***************************************************************************)
VARIABLES loc_profile, loc_image, loc_pc, loc_invoked, loc_result,
          loc_consulted

(***************************************************************************)
(* One run of CalibratedImageProcessor.process_folder.                     *)
(*   batch_pc: "idle" before the call, "loop" at the head of the loop over *)
(*   the files, "select" after a file was decoded, "process" after the     *)
(*   per-image profile was chosen, "done" after the return.                *)
(*   batch_files: the enumerated files; batch_i: files started.            *)
(*   stats: the tally the call returns.                                    *)
(*   batch_manager: a calibration_manager was passed.                      *)
(*   proc_config: the processor's calibration_config, <<>> for None,       *)
(*   <<[ref |-> "app"]>> for the application's CalibrationConfig object,   *)
(*   <<[ref |-> "copy", val |-> cfg]>> for a profile built by to_config.   *)
(*   old_config: the local variable of that name.                          *)
(* History variables (not in the program):                                 *)
(*   batch_entry: proc_config when process_folder was called;              *)
(*   batch_selected: what get_best_calibration_for_image returned for the  *)
(*   current file and the cell list it read;                               *)
(*   batch_log: per file, what was done with it.                           *)
(***************************************************************************)
VARIABLES batch_pc, batch_files, batch_i, stats, batch_manager,
          proc_config, old_config, batch_entry, batch_selected, batch_log

(***************************************************************************)
(* One call of ManualCropManager.get_suggested_points.                     *)
(*   sug_pc: "idle" before the call, "returned" after it.                  *)
(*   sug_result: the returned point list, <<>> for None.                   *)
(* History variable (not in the program):                                  *)
(*   sug_detect: the image the call was made on and what the detection     *)
(*   part of the call did: "found" a quadrilateral, a "miss", or an        *)
(*   "error" (an exception, caught).                                       *)
(***************************************************************************)
VARIABLES sug_pc, sug_result, sug_detect

(***************************************************************************)
(* The geometry functions of the processor, called on their own.           *)
(*   geo_call: the last call, with its arguments and what it returned      *)
(*   (fn is "none" before the first call).  The functions keep no state,   *)
(*   so a behaviour makes one call.                                        *)
(***************************************************************************)
VARIABLES geo_call

storeVars == <<calibration_cells, config, appConfig, aliased>>
tabVars == <<image_paths, current_index, current_image, current_points>>
histVars == <<lastCommit, ncommits, loads, committed>>
cropVars == <<crop_attached, crop_image_paths, crop_current_index,
              crop_current_image, crop_current_points,
              saved_indices, skipped_indices, manual_config>>
locVars == <<loc_profile, loc_image, loc_pc, loc_invoked, loc_result,
             loc_consulted>>
batchVars == <<batch_pc, batch_files, batch_i, stats, batch_manager,
               proc_config, old_config, batch_entry, batch_selected,
               batch_log>>
\* the state outside the calibration tab, the manual-crop tab and the locator
sugVars == <<sug_pc, sug_result, sug_detect>>
extVars == <<batchVars, sugVars, geo_call>>
vars == <<storeVars, tabVars, histVars, cropVars, locVars, extVars>>

\* Folder listings as random.shuffle may leave them (the empty listing is a
\* folder without JPEG files).
Folders ==
    { <<1, 3, 2, 4, 5, 6, 7>>, <<2, 1>>, <<3, 1, 8>>, <<9, 10, 11>>, <<>> }

ManualCropConfig == [crop_points_history |-> <<>>, samples_count |-> 0]

\* DocumentScannerApp.__init__ up to the managers
InitCalibration ==
    /\ calibration_cells = <<>>
    /\ config = CalibrationConfig
    /\ appConfig = CalibrationConfig
    /\ aliased = TRUE
    /\ image_paths = <<>>
    /\ current_index = 0
    /\ current_image = None
    /\ current_points = 0
    /\ lastCommit = "none"
    /\ ncommits = 0
    /\ committed = <<>>
    /\ loads = 0

InitManualCrop ==
    /\ crop_image_paths = <<>>
    /\ crop_current_index = 0
    /\ crop_current_image = None
    /\ crop_current_points = 0
    /\ saved_indices = {}
    /\ skipped_indices = {}
    /\ manual_config = ManualCropConfig

\* no locator run has started
InitLocator ==
    /\ loc_profile = <<>>
    /\ loc_image = [w |-> 0, h |-> 0]
    /\ loc_pc = "idle"
    /\ loc_invoked = <<>>
    /\ loc_result = <<>>
    /\ loc_consulted = FALSE

\* get_suggested_points has not been called
InitSuggestion ==
    /\ sug_pc = "idle"
    /\ sug_result = <<>>
    /\ sug_detect = [outcome |-> "none", image |-> None]

\* no geometry function has been called
NoCall == [fn |-> "none"]
InitGeometry == geo_call = NoCall

\* process_folder has not been called
InitBatch ==
    /\ batch_pc = "idle"
    /\ batch_files = <<>>
    /\ batch_i = 0
    /\ stats = [total |-> 0, processed |-> 0, failed |-> 0]
    /\ batch_manager = FALSE
    /\ proc_config = <<>>
    /\ old_config = <<>>
    /\ batch_entry = <<>>
    /\ batch_selected = [cells |-> <<>>, best |-> <<>>]
    /\ batch_log = <<>>

Init ==
    /\ InitCalibration
    /\ InitManualCrop
    /\ crop_attached = TRUE
    /\ InitLocator
    /\ InitBatch
    /\ InitGeometry
    /\ InitSuggestion

LoadImagesFromFolder(listings) ==
    /\ loads < MaxLoads
    /\ \E listing \in listings :
          /\ image_paths' = listing
          /\ current_index' = IF listing = <<>> THEN current_index ELSE 0
    /\ loads' = loads + 1
    /\ UNCHANGED <<storeVars, current_image, current_points, lastCommit, ncommits,
                 committed, cropVars, locVars, extVars>>

load_images_from_folder == LoadImagesFromFolder(Folders)

get_next_calibration_image ==
    /\ current_index < Len(image_paths)
    /\ current_image' = image_paths[current_index + 1]
    /\ current_points' = 0
    /\ current_index' = current_index + 1
    /\ UNCHANGED <<storeVars, image_paths, histVars,
                 cropVars, locVars, extVars>>

add_point ==
    /\ current_image # None
    /\ current_points < 4
    /\ current_points' = current_points + 1
    /\ UNCHANGED <<storeVars, image_paths, current_index, current_image, histVars,
                 cropVars, locVars, extVars>>

remove_last_point ==
    /\ current_points > 0
    /\ current_points' = current_points - 1
    /\ UNCHANGED <<storeVars, image_paths, current_index, current_image, histVars,
                 cropVars, locVars, extVars>>

clear_points ==
    /\ current_points' = 0
    /\ UNCHANGED <<storeVars, image_paths, current_index, current_image, histVars,
                 cropVars, locVars, extVars>>

CanCommit == current_image # None /\ current_points = 4

\* the cell the commit of the current image would merge into (0: none)
MatchingCell ==
    find_matching_cell(calibration_cells, Obs[current_image].aspect,
                       Obs[current_image].area)

CommitOutcome ==
    IF MatchingCell # 0 THEN "merged"
    ELSE IF AtCapacity(calibration_cells) THEN "evicted"
    ELSE "created"

save_calibration_rejected ==
    /\ ~CanCommit
    /\ lastCommit' = "rejected"
    /\ UNCHANGED <<storeVars, tabVars, ncommits, loads, committed,
                 cropVars, locVars, extVars>>

save_calibration_ok ==
    /\ CanCommit
    /\ ncommits < MaxCommits
    /\ MatchingCell # 0 =>
           calibration_cells[MatchingCell].commits < MaxCellCommits
    /\ LET analysed == AnalyzeCalibrationImage(config, current_image)
           cs == CommitCells(calibration_cells, analysed, current_image)
       IN  /\ calibration_cells' = cs
           /\ config' = update_main_config(analysed, cs)
           /\ appConfig' = IF aliased THEN analysed ELSE appConfig
           /\ aliased' = FALSE
    /\ lastCommit' = CommitOutcome
    /\ ncommits' = ncommits + 1
    /\ committed' = Append(committed, current_image)
    /\ UNCHANGED <<tabVars, loads,
                 cropVars, locVars, extVars>>

save_calibration == save_calibration_rejected \/ save_calibration_ok

(***************************************************************************)
(* The manual-crop tab.  Every file of a folder is readable (cv2.imread    *)
(* returns an image).  The drag operations move the clicked points and     *)
(* leave their number alone, so they do not change this state.             *)
(***************************************************************************)
\* the calibration folder and the review folder of the manual-crop runs;
\* the review listing is sorted, as load_images_from_folder leaves it
SmallFolders == { <<1>> }
CropFolders == { <<1, 3>>, <<>> }

calibrationVars == <<storeVars, tabVars, histVars>>

crop_load_images_from_folder ==
    /\ \E listing \in CropFolders :
          /\ crop_image_paths' = listing
          /\ IF listing = <<>>
             THEN UNCHANGED <<crop_current_index, saved_indices, skipped_indices>>
             ELSE /\ crop_current_index' = 0
                  /\ saved_indices' = {}
                  /\ skipped_indices' = {}
    /\ UNCHANGED <<calibrationVars, crop_attached, crop_current_image,
                   crop_current_points, manual_config, locVars, extVars>>

\* variant: the image is passed over without being recorded as skipped
skip_unrecorded ==
    /\ crop_current_index < Len(crop_image_paths)
    /\ crop_current_index' = crop_current_index + 1
    /\ UNCHANGED <<calibrationVars, crop_attached, crop_image_paths,
                   crop_current_image, crop_current_points, saved_indices,
                   skipped_indices, manual_config, locVars, extVars>>

\* the index the while loop of get_next_image stops at
RECURSIVE FirstUnprocessed(_)
FirstUnprocessed(i) ==
    IF i < Len(crop_image_paths) /\ i \in (saved_indices \cup skipped_indices)
    THEN FirstUnprocessed(i + 1)
    ELSE i

MinOf(S) == CHOOSE x \in S : \A y \in S : x <= y

\* Showing image number i (0-based).  When i is not an index of the listing
\* (possible after a reload found no files) the read of image_paths[i] raises
\* IndexError and only the assignments made before it remain.
ShowImage(i) ==
    IF i < Len(crop_image_paths)
    THEN /\ crop_current_image' = crop_image_paths[i + 1]
         /\ crop_current_points' = 0
    ELSE UNCHANGED <<crop_current_image, crop_current_points>>

get_next_image ==
    /\ LET i == FirstUnprocessed(crop_current_index)
       IN  IF i < Len(crop_image_paths)
           THEN /\ crop_current_index' = i
                /\ UNCHANGED skipped_indices
                /\ ShowImage(i)
           ELSE IF skipped_indices # {}
           THEN /\ crop_current_index' = MinOf(skipped_indices)
                /\ skipped_indices' = skipped_indices \ {MinOf(skipped_indices)}
                /\ ShowImage(MinOf(skipped_indices))
           ELSE /\ crop_current_index' = i
                /\ UNCHANGED <<skipped_indices, crop_current_image,
                               crop_current_points>>
    /\ UNCHANGED <<calibrationVars, crop_attached, crop_image_paths,
                   saved_indices, manual_config, locVars, extVars>>

skip_current_image ==
    /\ crop_current_index < Len(crop_image_paths)
    /\ skipped_indices' = skipped_indices \cup {crop_current_index}
    /\ crop_current_index' = crop_current_index + 1
    /\ UNCHANGED <<calibrationVars, crop_attached, crop_image_paths,
                   crop_current_image, crop_current_points, saved_indices,
                   manual_config, locVars, extVars>>

UnsavedBefore(i) == {p \in 0 .. i - 1 : p \notin saved_indices}

MaxOf(S) == CHOOSE x \in S : \A y \in S : x >= y

get_previous_image ==
    /\ crop_current_index > 0
    /\ UnsavedBefore(crop_current_index) # {}
    /\ crop_current_index' = MaxOf(UnsavedBefore(crop_current_index))
    /\ ShowImage(MaxOf(UnsavedBefore(crop_current_index)))
    /\ UNCHANGED <<calibrationVars, crop_attached, crop_image_paths,
                   saved_indices, skipped_indices, manual_config, locVars, extVars>>

crop_add_point ==
    /\ crop_current_image # None
    /\ crop_current_points < 4
    /\ crop_current_points' = crop_current_points + 1
    /\ UNCHANGED <<calibrationVars, crop_attached, crop_image_paths,
                   crop_current_index, crop_current_image, saved_indices,
                   skipped_indices, manual_config, locVars, extVars>>

set_points ==
    /\ crop_current_points' = 4
    /\ UNCHANGED <<calibrationVars, crop_attached, crop_image_paths,
                   crop_current_index, crop_current_image, saved_indices,
                   skipped_indices, manual_config, locVars, extVars>>

crop_remove_last_point ==
    /\ crop_current_points > 0
    /\ crop_current_points' = crop_current_points - 1
    /\ UNCHANGED <<calibrationVars, crop_attached, crop_image_paths,
                   crop_current_index, crop_current_image, saved_indices,
                   skipped_indices, manual_config, locVars, extVars>>

crop_clear_points ==
    /\ crop_current_points' = 0
    /\ UNCHANGED <<calibrationVars, crop_attached, crop_image_paths,
                   crop_current_index, crop_current_image, saved_indices,
                   skipped_indices, manual_config, locVars, extVars>>

\* Variant of add_sample: the history keeps only the newest crop.
replace_sample(mc, image) ==
    [mc EXCEPT !.crop_points_history = <<image>>,
               !.samples_count = @ + 1]

add_sample(mc, image) ==
    [mc EXCEPT !.crop_points_history = Append(@, image),
               !.samples_count = @ + 1]

CanSaveCrop == crop_current_image # None /\ crop_current_points = 4

save_crop ==
    /\ CanSaveCrop
    /\ manual_config.samples_count < MaxCrops
    /\ IF crop_attached
       THEN /\ appConfig' = AnalyzeCalibrationImage(appConfig, crop_current_image)
            /\ config' = IF aliased THEN appConfig' ELSE config
       ELSE UNCHANGED <<appConfig, config>>
    /\ manual_config' = add_sample(manual_config, crop_current_image)
    /\ IF crop_current_index < Len(crop_image_paths)
       THEN /\ saved_indices' = saved_indices \cup {crop_current_index}
            /\ crop_current_index' = crop_current_index + 1
       ELSE UNCHANGED <<saved_indices, crop_current_index>>
    /\ UNCHANGED <<calibration_cells, aliased, tabVars, histVars,
                   crop_attached, crop_image_paths, crop_current_image,
                   crop_current_points, skipped_indices, locVars, extVars>>

ManualCropNext ==
    \/ crop_load_images_from_folder
    \/ get_next_image
    \/ skip_current_image
    \/ get_previous_image
    \/ crop_add_point
    \/ set_points
    \/ crop_remove_last_point
    \/ crop_clear_points
    \/ save_crop

load_small_folder == LoadImagesFromFolder(SmallFolders)

InitCrop ==
    /\ InitBatch
    /\ InitGeometry
    /\ InitSuggestion
    /\ InitCalibration
    /\ InitManualCrop
    /\ crop_attached \in BOOLEAN
    /\ InitLocator

NextCrop ==
    \/ ManualCropNext
    \/ load_small_folder
    \/ get_next_calibration_image
    \/ add_point
    \/ save_calibration

SpecCrop == InitCrop /\ [][NextCrop]_vars

(***************************************************************************)
(* The locator: CalibratedImageProcessor.find_document_auto.               *)
(*   loc_profile: the processor's calibration_config, <<>> for None and    *)
(*   <<cfg>> for a CalibrationConfig.                                      *)
(*   loc_image: the size of the image, [w, h].                             *)
(*   loc_pc: "idle" before the call, "running" inside the cascade,         *)
(*   "returned" after a return, "raised" after an exception.               *)
(*   loc_result: the returned contour, <<>> for None.                      *)
(* History variables (not in the program):                                 *)
(*   loc_invoked: the methods invoked so far, each with the contour it     *)
(*   found before expansion (raw) and the contour it returned (found);     *)
(*   loc_consulted: a method has read a learned parameter of the profile.  *)
(* What OpenCV finds in the pixels is an input of the model: each method   *)
(* is given the list of contours that its detection passes, in the order   *)
(* tried, to expansion and validation.  Coordinates are chosen so that no  *)
(* float product falls on an integer boundary.                             *)
(***************************************************************************)
Images == { [w |-> 400, h |-> 300], [w |-> 640, h |-> 480],
            [w |-> 120, h |-> 90] }

\* contours a detection may yield (point lists, x then y)
Candidates ==
    { \* a page well inside the larger image
      << <<100, 60>>, <<310, 60>>, <<310, 250>>, <<100, 250>> >>,
      \* a small page
      << <<150, 110>>, <<260, 110>>, <<260, 190>>, <<150, 190>> >>,
      \* a page close to the borders of the smallest image
      << <<10, 10>>, <<110, 10>>, <<110, 80>>, <<10, 80>> >>,
      \* two corners almost on top of each other
      << <<100, 60>>, <<104, 61>>, <<310, 250>>, <<100, 250>> >>,
      \* a self-crossing point order: the enclosed area is 0
      << <<100, 60>>, <<310, 250>>, <<310, 60>>, <<100, 250>> >>,
      \* an approximation with five points
      << <<100, 60>>, <<205, 40>>, <<310, 60>>, <<310, 250>>, <<100, 250>> >> }

Profiles ==
    { <<>>, <<CalibrationConfig>>,
      <<AnalyzeCalibrationImage(CalibrationConfig, 1)>>,
      <<AnalyzeCalibrationImage(CalibrationConfig, 3)>> }

\* the methods of the cascade, in the order of find_document_auto
Cascade ==
    << "_find_light_on_dark", "_find_document_edges", "_find_by_edges",
       "_find_by_color", "_find_by_texture",
       "_find_with_relaxed_constraints", "_find_any_large_rectangle" >>

Sign(x) == IF x > 0 THEN 1 ELSE IF x < 0 THEN -1 ELSE 0
Clip(x, lo, hi) == Max2(lo, Min2(hi, x))
MinOver(S) == CHOOSE x \in S : \A y \in S : x <= y
MaxOver(S) == CHOOSE x \in S : \A y \in S : x >= y

\* max(20, min(50, int(extent * 0.12)))
ExpandBy(extent) == Max2(20, Min2(50, (extent * 12) \div 100))

expand_contour_slightly(contour, img) ==
    IF Len(contour) < 4 THEN contour
    ELSE LET xs == {contour[i][1] : i \in DOMAIN contour}
             ys == {contour[i][2] : i \in DOMAIN contour}
             expand_x == ExpandBy(MaxOver(xs) - MinOver(xs))
             expand_y == ExpandBy(MaxOver(ys) - MinOver(ys))
             \* twice the centre, so that halves stay integers
             cx2 == MinOver(xs) + MaxOver(xs)
             cy2 == MinOver(ys) + MaxOver(ys)
         IN  [i \in DOMAIN contour |->
                << Clip(contour[i][1] + Sign(2 * contour[i][1] - cx2) * expand_x,
                        0, img.w - 1),
                   Clip(contour[i][2] + Sign(2 * contour[i][2] - cy2) * expand_y,
                        0, img.h - 1) >>]

Dist2(p, q) == (p[1] - q[1]) * (p[1] - q[1]) + (p[2] - q[2]) * (p[2] - q[2])

\* twice the signed area of a quadrilateral (shoelace)
Shoelace2(c) ==
    (c[1][1] * c[2][2] - c[2][1] * c[1][2])
  + (c[2][1] * c[3][2] - c[3][1] * c[2][2])
  + (c[3][1] * c[4][2] - c[4][1] * c[3][2])
  + (c[4][1] * c[1][2] - c[1][1] * c[4][2])

PointsApart(c, img) ==
    \A i \in 1 .. 4 : \A j \in i + 1 .. 4 :
        400 * Dist2(c[i], c[j]) >= Min2(img.h, img.w) * Min2(img.h, img.w)

PointsInside(c, img) ==
    \A i \in 1 .. 4 :
        /\ c[i][1] >= 0 /\ c[i][1] < img.w
        /\ c[i][2] >= 0 /\ c[i][2] < img.h

AreaLargeEnough(c, img) == 50 * Abs(Shoelace2(c)) >= img.w * img.h

\* Variant of validate_contour: the distance check is missing.
validate_contour_without_distance(contour, img) ==
    /\ Len(contour) = 4
    /\ PointsInside(contour, img)
    /\ AreaLargeEnough(contour, img)

\* Variant of validate_contour: the area check is missing.
validate_contour_without_area(contour, img) ==
    /\ Len(contour) = 4
    /\ PointsApart(contour, img)
    /\ PointsInside(contour, img)

\* reshape(4, 2) raises for any other number of points, which returns False
validate_contour(contour, img) ==
    /\ Len(contour) = 4
    /\ PointsApart(contour, img)
    /\ PointsInside(contour, img)
    /\ AreaLargeEnough(contour, img)

NoAttempt == [raw |-> <<>>, found |-> <<>>]

\* the first contour of the list that passes validation once expanded
RECURSIVE FirstValid(_, _)
FirstValid(attempts, img) ==
    IF attempts = <<>> THEN NoAttempt
    ELSE LET expanded == expand_contour_slightly(attempts[1], img)
         IN  IF validate_contour(expanded, img)
             THEN [raw |-> attempts[1], found |-> expanded]
             ELSE FirstValid(Tail(attempts), img)

\* lists of at most n contours
AttemptLists(n) ==
    UNION {[1 .. k -> Candidates] : k \in 0 .. n}

find_document_auto_entry ==
    /\ loc_pc = "idle"
    /\ loc_pc' = IF loc_profile = <<>> THEN "raised"
                 ELSE IF ~loc_profile[1].calibrated THEN "returned"
                 ELSE "running"
    /\ UNCHANGED <<calibrationVars, cropVars, loc_profile, loc_image,
                   loc_invoked, loc_result, loc_consulted, extVars>>

\* Variant of AfterMethod: the cascade does not return on the first success.
AfterMethodWithoutEarlyReturn(k, found) ==
    IF k = Len(Cascade) THEN "returned" ELSE "running"

\* "if contour is not None: return contour", and the final "return None"
AfterMethod(k, found) ==
    IF found # <<>> \/ k = Len(Cascade) THEN "returned" ELSE "running"

\* Method number k runs on the contours its detection yields.
RunMethod(k, attempts, readsProfile) ==
    /\ LET r == FirstValid(attempts, loc_image)
       IN  /\ loc_invoked' = Append(loc_invoked,
                  [method |-> Cascade[k], raw |-> r.raw, found |-> r.found])
           /\ loc_result' = r.found
           /\ loc_pc' = AfterMethod(k, r.found)
    /\ loc_consulted' = (loc_consulted \/ readsProfile)
    /\ UNCHANGED <<calibrationVars, cropVars, loc_profile, loc_image, extVars>>

\* the cascade has reached its method number k
Reached(k) == loc_pc = "running" /\ Len(loc_invoked) = k - 1

find_light_on_dark ==
    /\ Reached(1)
    /\ \E attempts \in AttemptLists(MaxAttempts) : RunMethod(1, attempts, TRUE)

find_document_edges ==
    /\ Reached(2)
    /\ \E attempts \in AttemptLists(1) : RunMethod(2, attempts, TRUE)

find_by_edges ==
    /\ Reached(3)
    /\ \E attempts \in AttemptLists(MaxAttempts) : RunMethod(3, attempts, TRUE)

\* returns None at once when the profile has no avg_color
find_by_color ==
    /\ Reached(4)
    /\ \E attempts \in AttemptLists(1) :
          RunMethod(4, IF loc_profile[1].avg_color = NoColor
                       THEN <<>> ELSE attempts, TRUE)

find_by_texture ==
    /\ Reached(5)
    /\ \E attempts \in AttemptLists(1) : RunMethod(5, attempts, TRUE)

find_with_relaxed_constraints ==
    /\ Reached(6)
    /\ \E attempts \in AttemptLists(1) : RunMethod(6, attempts, FALSE)

\* approx[:4]
FirstFour(c) == IF Len(c) > 4 THEN SubSeq(c, 1, 4) ELSE c

find_any_large_rectangle ==
    /\ Reached(7)
    /\ \E attempts \in AttemptLists(MaxAttempts) :
          RunMethod(7, [i \in DOMAIN attempts |-> FirstFour(attempts[i])],
                    FALSE)

InitLocate ==
    /\ InitBatch
    /\ InitGeometry
    /\ InitSuggestion
    /\ InitCalibration
    /\ InitManualCrop
    /\ crop_attached = TRUE
    /\ loc_profile \in Profiles
    /\ loc_image \in Images
    /\ loc_pc = "idle"
    /\ loc_invoked = <<>>
    /\ loc_result = <<>>
    /\ loc_consulted = FALSE

NextLocate ==
    \/ find_document_auto_entry
    \/ find_light_on_dark
    \/ find_document_edges
    \/ find_by_edges
    \/ find_by_color
    \/ find_by_texture
    \/ find_with_relaxed_constraints
    \/ find_any_large_rectangle

SpecLocate == InitLocate /\ [][NextLocate]_vars

(***************************************************************************)
(* Batch processing: CalibratedImageProcessor.process_folder with          *)
(* CalibrationManager.get_best_calibration_for_image and                   *)
(* crop_with_calibration.                                                  *)
(* What OpenCV finds in a file is an input of the model:                   *)
(*   decodes: cv2.imread returns an image;                                 *)
(*   est: what the Otsu/external-contour heuristic of                      *)
(*   get_best_calibration_for_image yields: no contour, a largest contour  *)
(*   approximated by fewer than 4 points, or an aspect ratio and an area   *)
(*   ratio (hundredths);                                                   *)
(*   tried: the contours the cascade of find_document_auto, when it runs,  *)
(*   expands and validates, in the order tried; quad: the contour it       *)
(*   returns (<<>> for None); found: it returns one;                       *)
(*   rect: _find_any_large_rectangle finds one (it is the last method of   *)
(*   the cascade, so rect implies found);                                  *)
(*   w, h: the size of the image.                                          *)
(***************************************************************************)
NoContours == [kind |-> "no_contours", aspect |-> 0, area |-> 0]
FewCorners == [kind |-> "few_corners", aspect |-> 0, area |-> 0]
Estimate(aspect, area) == [kind |-> "quad", aspect |-> aspect, area |-> area]

\* a file with what the cascade returns for the contours it tries
File(decodes, est, tried, rect, w, h) ==
    LET quad == FirstValid(tried, [w |-> w, h |-> h]).found
    IN  [decodes |-> decodes, est |-> est, tried |-> tried, quad |-> quad,
         found |-> quad # <<>>, rect |-> rect, w |-> w, h |-> h]

Files ==
    { File(FALSE, NoContours, <<>>, FALSE, 0, 0),
      \* a contour with two corners almost on top of each other is tried
      \* before the page
      File(TRUE, NoContours,
           << << <<100, 60>>, <<104, 61>>, <<310, 250>>, <<100, 250>> >>,
              << <<100, 60>>, <<310, 60>>, <<310, 250>>, <<100, 250>> >> >>,
           FALSE, 400, 300),
      \* the only contour tried crosses itself
      File(TRUE, FewCorners,
           << << <<100, 60>>, <<310, 250>>, <<310, 60>>, <<100, 250>> >> >>,
           FALSE, 400, 300),
      File(TRUE, Estimate(1000, 5), <<>>, FALSE, 1000, 700),
      File(TRUE, Estimate(350, 90),
           << << <<100, 60>>, <<310, 60>>, <<310, 250>>, <<100, 250>> >> >>,
           TRUE, 1000, 700) }

\* the file lists a folder may enumerate
FileLists == UNION {[1 .. n -> Files] : n \in 0 .. MaxFiles}

\* the calibration folder of the batch runs
BatchFolders == { <<12, 3>>, <<13>> }

\* The annotated quadrilateral of a calibration image and the size of that
\* image, in pixels (the images of BatchFolders and CropFolders).
Annotation ==
    [s \in {1, 3, 12, 13} |->
        CASE s = 1 ->
               [w |-> 1000, h |-> 700,
                points |-> << <<149, 100>>, <<854, 100>>,
                              <<854, 599>>, <<149, 599>> >>]
          [] s = 3 ->
               [w |-> 800, h |-> 600,
                points |-> << <<156, 57>>, <<649, 57>>,
                              <<649, 548>>, <<156, 548>> >>]
          [] s = 12 ->
               [w |-> 1400, h |-> 400,
                points |-> << <<34, 11>>, <<1363, 11>>,
                              <<1363, 391>>, <<34, 391>> >>]
          [] s = 13 ->
               [w |-> 1000, h |-> 700,
                points |-> << <<100, 300>>, <<550, 300>>,
                              <<550, 330>>, <<100, 330>> >>]]

\* The scoring loop of get_best_calibration_for_image from cell i on; best
\* is the index of best_cell (0 for None).
RECURSIVE BestScoringFrom(_, _, _, _, _)
BestScoringFrom(cs, aspect, area, i, best) ==
    IF i > Len(cs) THEN best
    ELSE LET bestScore == IF best = 0 THEN <<0, 1>>
                          ELSE get_match_score(cs[best], aspect, area)
             better == ScoreGreater(get_match_score(cs[i], aspect, area),
                                    bestScore)
         IN  BestScoringFrom(cs, aspect, area, i + 1,
                             IF better THEN i ELSE best)

\* Variant of AboveThreshold: every score passes.
AboveAnyThreshold(score) == TRUE

\* best_score > 0.3
AboveThreshold(score) == FracLess(3, 10, score[1], score[2])

\* the index of the cell whose profile is returned (0: None is returned)
BestCellFor(cs, est) ==
    IF cs = <<>> THEN 0
    ELSE IF Len(cs) = 1 THEN 1
    ELSE IF est.kind # "quad" THEN MostSampled(cs)
    ELSE LET b == BestScoringFrom(cs, est.aspect, est.area, 1, 0)
         IN  IF b # 0 /\ AboveThreshold(
                             get_match_score(cs[b], est.aspect, est.area))
             THEN b
             ELSE MostSampled(cs)

\* <<>> for None, <<cfg>> for the profile
get_best_calibration_for_image(cs, est) ==
    IF BestCellFor(cs, est) = 0 THEN <<>>
    ELSE <<to_config(cs[BestCellFor(cs, est)])>>

\* the CalibrationConfig a reference of the processor stands for
Deref(ref) == IF ref.ref = "app" THEN appConfig ELSE ref.val

process_folder_entry ==
    /\ batch_pc = "idle"
    /\ \E files \in FileLists :
          /\ batch_files' = files
          /\ stats' = [total |-> Len(files), processed |-> 0, failed |-> 0]
    /\ batch_manager' \in BOOLEAN
    /\ proc_config' \in { <<>>, <<[ref |-> "app"]>> }
    /\ batch_entry' = proc_config'
    /\ batch_pc' = "loop"
    /\ UNCHANGED <<calibrationVars, cropVars, locVars, sugVars, geo_call, batch_i,
                   old_config, batch_selected, batch_log>>

\* Variant of CountFailed: an undecodable file is passed over uncounted.
CountNothing(st) == st

\* stats['failed'] += 1
CountFailed(st) == [st EXCEPT !.failed = @ + 1]

\* the head of the loop: progress callback, cv2.imread, "continue" on None
batch_load ==
    /\ batch_pc = "loop"
    /\ batch_i < Len(batch_files)
    /\ batch_i' = batch_i + 1
    /\ IF batch_files[batch_i + 1].decodes
       THEN /\ batch_pc' = "select"
            /\ UNCHANGED <<stats, batch_log>>
       ELSE /\ batch_pc' = "loop"
            /\ stats' = CountFailed(stats)
            /\ batch_log' = Append(batch_log,
                   [outcome |-> "not_decoded", points |-> <<>>])
    /\ UNCHANGED <<calibrationVars, cropVars, locVars, sugVars, geo_call,
                   batch_files, batch_manager, proc_config, old_config,
                   batch_entry, batch_selected>>

\* old_config = None; the per-image profile is chosen and swapped in
batch_select ==
    /\ batch_pc = "select"
    /\ LET best == IF batch_manager
                   THEN get_best_calibration_for_image(
                            calibration_cells, batch_files[batch_i].est)
                   ELSE <<>>
       IN  /\ batch_selected' = [cells |-> calibration_cells, best |-> best]
           /\ IF best # <<>>
              THEN /\ old_config' = proc_config
                   /\ proc_config' = <<[ref |-> "copy", val |-> best[1]]>>
              ELSE /\ old_config' = <<>>
                   /\ UNCHANGED proc_config
    /\ batch_pc' = "process"
    /\ UNCHANGED <<calibrationVars, cropVars, locVars, sugVars, geo_call, batch_files, batch_i,
                   stats, batch_manager, batch_entry, batch_log>>

\* points = [(int(x * w), int(y * h)) for x, y in crop_points], clipped to
\* the image; crop_points are the annotated points divided by the size of
\* the calibration image
RescaledCropPoints(s, file) ==
    [i \in 1 .. 4 |->
        << Clip((Annotation[s].points[i][1] * file.w) \div Annotation[s].w,
                0, file.w - 1),
           Clip((Annotation[s].points[i][2] * file.h) \div Annotation[s].h,
                0, file.h - 1) >>]

\* Variant of HasStoredCrop: the stored crop is never used.
HasNoStoredCrop(cfg) == FALSE

\* crop_points is not None and len(crop_points) == 4
HasStoredCrop(cfg) == cfg.crop_points # None

\* What crop_with_calibration does with the image of a file under a
\* profile (<<>> for None): "raised" for the AttributeError of
\* find_document_auto on None, "located" for the rectified quadrilateral of
\* the cascade, "none" for the None returned when two points of that
\* quadrilateral are too close, "stored_crop" for the rectified stored crop
\* points, "rectangle" for the rectified quadrilateral of the last-resort
\* search, "original" for the unmodified image.
crop_with_calibration(profile, file) ==
    IF profile = <<>>
    THEN [outcome |-> "raised", points |-> <<>>]
    ELSE IF profile[1].calibrated /\ file.found
    THEN IF PointsApart(file.quad, [w |-> file.w, h |-> file.h])
         THEN [outcome |-> "located", points |-> <<>>]
         ELSE [outcome |-> "none", points |-> <<>>]
    ELSE IF HasStoredCrop(profile[1])
    THEN [outcome |-> "stored_crop",
          points |-> RescaledCropPoints(profile[1].crop_points, file)]
    ELSE IF file.rect
    THEN [outcome |-> "rectangle", points |-> <<>>]
    ELSE [outcome |-> "original", points |-> <<>>]

\* "except Exception: return image"
process_single_image_from_array(profile, file) ==
    LET r == crop_with_calibration(profile, file)
    IN  IF r.outcome = "raised"
        THEN [outcome |-> "original_after_error", points |-> <<>>]
        ELSE r

\* "if old_config is not None: self.calibration_config = old_config"
RestoredConfig(current, old) == IF old # <<>> THEN old ELSE current

\* the image is processed, the profile restored, the result written and
\* counted
batch_process ==
    /\ batch_pc = "process"
    /\ LET profile == IF proc_config = <<>> THEN <<>>
                      ELSE <<Deref(proc_config[1])>>
           result == process_single_image_from_array(profile,
                                                     batch_files[batch_i])
       IN  /\ batch_log' = Append(batch_log, result)
           /\ stats' = IF result.outcome = "none"
                       THEN CountFailed(stats)
                       ELSE [stats EXCEPT !.processed = @ + 1]
    /\ proc_config' = RestoredConfig(proc_config, old_config)
    /\ batch_pc' = "loop"
    /\ UNCHANGED <<calibrationVars, cropVars, locVars, sugVars, geo_call, batch_files, batch_i,
                   batch_manager, old_config, batch_entry, batch_selected>>

\* "return stats"
batch_return ==
    /\ batch_pc = "loop"
    /\ batch_i = Len(batch_files)
    /\ batch_pc' = "done"
    /\ UNCHANGED <<calibrationVars, cropVars, locVars, sugVars, geo_call, batch_files, batch_i,
                   stats, batch_manager, proc_config, old_config,
                   batch_entry, batch_selected, batch_log>>

load_batch_folder == LoadImagesFromFolder(BatchFolders)

\* The GUI thread keeps serving the calibration tab while the processing
\* thread runs process_folder.
NextBatch ==
    \/ load_batch_folder
    \/ get_next_calibration_image
    \/ add_point
    \/ save_calibration
    \/ process_folder_entry
    \/ batch_load
    \/ batch_select
    \/ batch_process
    \/ batch_return

SpecBatch == Init /\ [][NextBatch]_vars

(***************************************************************************)
(* Crop suggestions: ManualCropManager.get_suggested_points and            *)
(* ManualCropConfig.get_suggested_points.  Fractions are <<num, den>>.     *)
(***************************************************************************)
\* points_normalized = [(x / w, y / h) for x, y in points] of the crop saved
\* on image s
points_normalized(s) ==
    [i \in 1 .. 4 |->
        << <<Annotation[s].points[i][1], Annotation[s].w>>,
           <<Annotation[s].points[i][2], Annotation[s].h>> >>]

\* Variant of recent_samples: the whole history.
all_samples(history) == history

\* crop_points_history[-min(10, len(crop_points_history)):]
recent_samples(history) == LastN(history, Min2(MaxRecent, Len(history)))

\* sorted(xs), by insertion
RECURSIVE SortFractions(_)
SortFractions(xs) ==
    IF xs = <<>> THEN <<>>
    ELSE LET sorted == SortFractions(SubSeq(xs, 1, Len(xs) - 1))
             x == xs[Len(xs)]
             k == Cardinality({i \in 1 .. Len(sorted) :
                                  sorted[i][1] * x[2] <= x[1] * sorted[i][2]})
         IN  SubSeq(sorted, 1, k) \o <<x>>
                 \o SubSeq(sorted, k + 1, Len(sorted))

\* np.median: the middle value, or the mean of the two middle values
median(xs) ==
    LET sorted == SortFractions(xs)
        n == Len(xs)
    IN  IF n % 2 = 1 THEN sorted[(n + 1) \div 2]
        ELSE LET a == sorted[n \div 2]
                 b == sorted[n \div 2 + 1]
             IN  <<a[1] * b[2] + b[1] * a[2], 2 * a[2] * b[2]>>

\* int(avg * size)
ScaledToSize(avg, size) == (avg[1] * size) \div avg[2]

\* ManualCropConfig.get_suggested_points for an image of size w x h
history_suggested_points(mc, w, h) ==
    IF mc.samples_count = 0 THEN <<>>
    ELSE IF Len(mc.crop_points_history) > 0
    THEN LET recent == recent_samples(mc.crop_points_history)
             coords(i, c) ==
                 [k \in 1 .. Len(recent) |-> points_normalized(recent[k])[i][c]]
         IN  [i \in 1 .. 4 |->
                 << ScaledToSize(median(coords(i, 1)), w),
                    ScaledToSize(median(coords(i, 2)), h) >>]
    ELSE <<>>

\* a quadrilateral the detection methods may return
DetectedQuads ==
    { << <<120, 80>>, <<700, 80>>, <<700, 520>>, <<120, 520>> >> }

\* ManualCropManager.get_suggested_points: the detection methods run inside
\* try/except; when they find nothing or raise, the history is asked
get_suggested_points ==
    /\ IF crop_current_image = None
       THEN /\ sug_result' = <<>>
            /\ sug_detect' = [outcome |-> "no_image", image |-> None]
       ELSE \E outcome \in {"found", "miss", "error"} :
               /\ sug_detect' = [outcome |-> outcome,
                                  image |-> crop_current_image]
               /\ IF outcome = "found"
                  THEN sug_result' \in DetectedQuads
                  ELSE sug_result' = history_suggested_points(
                                         manual_config,
                                         Annotation[crop_current_image].w,
                                         Annotation[crop_current_image].h)
    /\ sug_pc' = "returned"
    /\ UNCHANGED <<calibrationVars, cropVars, locVars, batchVars, geo_call>>

\* The manual-crop tab after the crops of a history of at most MaxHistory
\* entries were saved and a folder was loaded, with a manager that holds no
\* calibration profile.
InitSuggest ==
    /\ InitCalibration
    /\ InitLocator
    /\ InitBatch
    /\ InitGeometry
    /\ InitSuggestion
    /\ crop_attached = FALSE
    /\ \E history \in UNION {[1 .. n -> {1, 3}] : n \in 0 .. MaxHistory} :
          /\ manual_config = [crop_points_history |-> history,
                              samples_count |-> Len(history)]
          /\ crop_current_image =
                 IF history = <<>> THEN None ELSE history[Len(history)]
          /\ crop_current_points = IF history = <<>> THEN 0 ELSE 4
    /\ crop_image_paths = <<1, 3>>
    /\ crop_current_index = 0
    /\ saved_indices = {}
    /\ skipped_indices = {}

NextSuggest ==
    \/ get_next_image
    \/ get_suggested_points

SpecSuggest == InitSuggest /\ [][NextSuggest]_vars

\* The manual-crop tab on its own: every operation of the manager, with
\* suggestion queries in between.
NextCropTab ==
    \/ ManualCropNext
    \/ get_suggested_points

SpecCropTab == InitCrop /\ [][NextCropTab]_vars

\* The manual-crop tab after a folder of two images was loaded, under a
\* reviewer who keeps working: asking for the next image, marking the four
\* points and saving are not put off for ever when they can be done again
\* and again.
InitReview ==
    /\ InitBatch
    /\ InitGeometry
    /\ InitSuggestion
    /\ InitCalibration
    /\ InitLocator
    /\ crop_attached \in BOOLEAN
    /\ crop_image_paths = <<1, 3>>
    /\ crop_current_index = 0
    /\ crop_current_image = None
    /\ crop_current_points = 0
    /\ saved_indices = {}
    /\ skipped_indices = {}
    /\ manual_config = ManualCropConfig

NextReview ==
    \/ get_next_image
    \/ skip_current_image
    \/ get_previous_image
    \/ crop_add_point
    \/ set_points
    \/ crop_remove_last_point
    \/ crop_clear_points
    \/ save_crop

SpecReview ==
    /\ InitReview
    /\ [][NextReview]_vars
    /\ SF_vars(get_next_image)
    /\ SF_vars(set_points)
    /\ SF_vars(save_crop)

(***************************************************************************)
(* Geometry: order_points (three implementations) and four_point_transform *)
(* of CalibratedImageProcessor.  Points are <<x, y>> with integer          *)
(* coordinates small enough for float32 to hold every sum, difference and  *)
(* product exactly.                                                        *)
(***************************************************************************)
\* np.argmin, np.argmax: the first index of an extreme value
ArgMin(xs) ==
    CHOOSE i \in DOMAIN xs :
        /\ \A j \in DOMAIN xs : xs[i] <= xs[j]
        /\ \A j \in 1 .. i - 1 : xs[j] > xs[i]

ArgMax(xs) ==
    CHOOSE i \in DOMAIN xs :
        /\ \A j \in DOMAIN xs : xs[i] >= xs[j]
        /\ \A j \in 1 .. i - 1 : xs[j] < xs[i]

\* s = pts.sum(axis=1), diff = np.diff(pts, axis=1)
CoordSums(pts) == [i \in DOMAIN pts |-> pts[i][1] + pts[i][2]]
CoordDiffs(pts) == [i \in DOMAIN pts |-> pts[i][2] - pts[i][1]]

\* PerspectiveTransformer.order_points
transformer_order_points(pts) ==
    << pts[ArgMin(CoordSums(pts))], pts[ArgMin(CoordDiffs(pts))],
       pts[ArgMax(CoordSums(pts))], pts[ArgMax(CoordDiffs(pts))] >>

\* ManualCropManager._order_points
manual_order_points(pts) ==
    << pts[ArgMin(CoordSums(pts))], pts[ArgMin(CoordDiffs(pts))],
       pts[ArgMax(CoordSums(pts))], pts[ArgMax(CoordDiffs(pts))] >>

\* 1000 * tan(5k degrees), k = 1 .. 17, rounded down
Tan5 ==
    << 87, 176, 267, 363, 466, 577, 700, 839, 1000, 1191, 1428, 1732, 2144,
       2747, 3732, 5671, 11430 >>

\* The angle at p2 between p1 and p3, in degrees, rounded down to a
\* multiple of 5: arccos(dot / (|v1| |v2| + 1e-6)), which is 90 when one of
\* the vectors is zero.
AngleAt(p1, p2, p3) ==
    LET v1 == <<p1[1] - p2[1], p1[2] - p2[2]>>
        v2 == <<p3[1] - p2[1], p3[2] - p2[2]>>
        dot == v1[1] * v2[1] + v1[2] * v2[2]
        cross == Abs(v1[1] * v2[2] - v1[2] * v2[1])
    IN  IF v1 = <<0, 0>> \/ v2 = <<0, 0>> \/ dot = 0 THEN 90
        ELSE IF dot > 0
        THEN 5 * Cardinality({k \in 1 .. 17 : 1000 * cross >= dot * Tan5[k]})
        ELSE IF cross = 0 THEN 180
        ELSE 90 + 5 * Cardinality({k \in 1 .. 17 :
                                      1000 * cross <= (-dot) * Tan5[18 - k]})

\* the sum of the four angles of rect, each rounded down to a multiple of 5
AngleSum(rect) ==
    AngleAt(rect[1], rect[2], rect[3]) + AngleAt(rect[2], rect[3], rect[4])
  + AngleAt(rect[3], rect[4], rect[1]) + AngleAt(rect[4], rect[1], rect[2])

\* abs(avg_angle - 90) > 30.  The true sum lies in AngleSum .. AngleSum + 20;
\* the test is decided when that interval lies on one side of 240 and of 480.
AnglesFarFromRight(rect) == AngleSum(rect) + 20 < 240 \/ AngleSum(rect) > 480

\* The alternative method: the points sorted by np.arctan2 around the
\* centre (a stable sort), rolled so that the one with the smallest
\* coordinate sum comes first.  Vectors are 4 * (pt - centre).
OrderByAngle(pts) ==
    LET cx4 == pts[1][1] + pts[2][1] + pts[3][1] + pts[4][1]
        cy4 == pts[1][2] + pts[2][2] + pts[3][2] + pts[4][2]
        u(i) == <<4 * pts[i][1] - cx4, 4 * pts[i][2] - cy4>>
        \* the range of arctan2: below the axis, 0, above the axis, 180
        Part(v) == IF v[2] < 0 THEN 0
                   ELSE IF v[2] > 0 THEN 2
                   ELSE IF v[1] >= 0 THEN 1 ELSE 3
        Less(i, j) ==
            \/ Part(u(i)) < Part(u(j))
            \/ /\ Part(u(i)) = Part(u(j))
               /\ Part(u(i)) \in {0, 2}
               /\ u(i)[1] * u(j)[2] - u(i)[2] * u(j)[1] > 0
        Rank(i) == 1 + Cardinality({j \in 1 .. 4 : Less(j, i)})
                     + Cardinality({j \in 1 .. i - 1 :
                                       ~Less(j, i) /\ ~Less(i, j)})
        sorted_pts == [r \in 1 .. 4 |-> pts[CHOOSE i \in 1 .. 4 : Rank(i) = r]]
        top_left_idx == ArgMin(CoordSums(sorted_pts))
    IN  [r \in 1 .. 4 |-> sorted_pts[((r + top_left_idx - 2) % 4) + 1]]

\* CalibratedImageProcessor.order_points
order_points(pts) ==
    LET rect == << pts[ArgMin(CoordSums(pts))], pts[ArgMin(CoordDiffs(pts))],
                   pts[ArgMax(CoordSums(pts))], pts[ArgMax(CoordDiffs(pts))] >>
    IN  IF AnglesFarFromRight(rect) THEN OrderByAngle(pts) ELSE rect

\* int(np.sqrt(dx ** 2 + dy ** 2))
EdgeLength(p, q) ==
    LET n == Dist2(p, q)
    IN  CHOOSE k \in 0 .. n : k * k <= n /\ (k + 1) * (k + 1) > n

\* CalibratedImageProcessor.four_point_transform under a profile (<<>> for a
\* processor without one): "raised" for the AttributeError of reading
\* target_size on None, "unchanged" for the input image returned as it is,
\* "warped" for the rectified image of size w x h.  warned: the aspect
\* warning was printed.
four_point_transform(profile, pts) ==
    LET rect == order_points(pts)
        maxWidth == Max2(EdgeLength(rect[3], rect[4]),
                         EdgeLength(rect[2], rect[1]))
        maxHeight == Max2(EdgeLength(rect[2], rect[3]),
                          EdgeLength(rect[1], rect[4]))
        target == profile[1].target_size
        \* abs(calc - target) / target > 0.5, calc = 1.0 when maxHeight = 0
        warned ==
            /\ target # <<>>
            /\ target[1] > 0 /\ target[2] > 0
            /\ IF maxHeight > 0
               THEN 2 * Abs(maxWidth * target[2] - target[1] * maxHeight)
                        > target[1] * maxHeight
               ELSE 2 * Abs(target[2] - target[1]) > target[1]
    IN  IF profile = <<>>
        THEN [outcome |-> "raised", w |-> 0, h |-> 0, warned |-> FALSE]
        ELSE IF maxWidth < 10 \/ maxHeight < 10
        THEN [outcome |-> "unchanged", w |-> 0, h |-> 0, warned |-> warned]
        ELSE [outcome |-> "warped", w |-> maxWidth, h |-> maxHeight,
              warned |-> warned]

\* the corner sets the functions are called on
GeoQuads ==
    { \* an upright rectangle
      << <<2, 1>>, <<30, 1>>, <<30, 20>>, <<2, 20>> >>,
      \* a trapezoid whose corners have distinct sums and differences
      << <<4, 2>>, <<40, 5>>, <<37, 30>>, <<1, 24>> >>,
      \* a trapezoid whose two lower corners have the same difference y - x
      << <<0, 0>>, <<10, 0>>, <<10, 20>>, <<0, 10>> >>,
      \* a quadrilateral with distinct sums and differences, one corner of
      \* which has both the largest sum and the largest difference
      << <<0, 0>>, <<10, 1>>, <<11, 30>>, <<1, 12>> >>,
      \* a square standing on a corner
      << <<10, 0>>, <<20, 10>>, <<10, 20>>, <<0, 10>> >>,
      \* a strip 9 px wide
      << <<1, 2>>, <<10, 3>>, <<11, 33>>, <<2, 31>> >>,
      \* a quadrilateral whose edges are between 9 and 10 px long
      << <<0, 1>>, <<9, 4>>, <<8, 13>>, <<1, 10>> >> }

\* every order the four corners may be passed in
GeoInputs ==
    {[i \in 1 .. 4 |-> q[p[i]]] : q \in GeoQuads, p \in Permutations(1 .. 4)}

\* the processor's profile as four_point_transform reads it: none, or one
\* with target_size None (<<>>) or (width, height)
GeoProfiles ==
    { <<>> } \cup
    { <<[target_size |-> t]>> : t \in { <<>>, <<0, 0>>, <<28, 19>>, <<19, 280>> } }

order_points_call ==
    /\ geo_call = NoCall
    /\ \E pts \in GeoInputs :
          geo_call' = [fn |-> "order_points", pts |-> pts,
                       out |-> order_points(pts)]
    /\ UNCHANGED <<calibrationVars, cropVars, locVars, batchVars, sugVars>>

transformer_order_points_call ==
    /\ geo_call = NoCall
    /\ \E pts \in GeoInputs :
          geo_call' = [fn |-> "PerspectiveTransformer.order_points",
                       pts |-> pts, out |-> transformer_order_points(pts)]
    /\ UNCHANGED <<calibrationVars, cropVars, locVars, batchVars, sugVars>>

manual_order_points_call ==
    /\ geo_call = NoCall
    /\ \E pts \in GeoInputs :
          geo_call' = [fn |-> "ManualCropManager._order_points",
                       pts |-> pts, out |-> manual_order_points(pts)]
    /\ UNCHANGED <<calibrationVars, cropVars, locVars, batchVars, sugVars>>

four_point_transform_call ==
    /\ geo_call = NoCall
    /\ \E pts \in GeoInputs, profile \in GeoProfiles :
          geo_call' = [fn |-> "four_point_transform", pts |-> pts,
                       profile |-> profile,
                       out |-> four_point_transform(profile, pts)]
    /\ UNCHANGED <<calibrationVars, cropVars, locVars, batchVars, sugVars>>

\* contours _validate_contour is called on, besides those of the locator
GeoContours ==
    Candidates \cup
    { \* a small square: 400 px^2
      << <<100, 100>>, <<120, 100>>, <<120, 120>>, <<100, 120>> >>,
      \* a page with a corner on the column just right of a 400 px image
      << <<100, 60>>, <<400, 60>>, <<400, 250>>, <<100, 250>> >>,
      \* a page with a corner above the image
      << <<100, -1>>, <<310, 60>>, <<310, 250>>, <<100, 250>> >>,
      \* three points
      << <<100, 60>>, <<310, 60>>, <<310, 250>> >> }

validate_contour_call ==
    /\ geo_call = NoCall
    /\ \E contour \in GeoContours, img \in Images :
          geo_call' = [fn |-> "_validate_contour", pts |-> contour,
                       image |-> img, out |-> validate_contour(contour, img)]
    /\ UNCHANGED <<calibrationVars, cropVars, locVars, batchVars, sugVars>>

(***************************************************************************)
(* The contour search _find_best_contour in relaxed mode (strict=False).   *)
(* What OpenCV measures of a contour is an input of the model:             *)
(*   area: cv2.contourArea, in px^2;                                       *)
(*   approx: the loop over epsilon ended with an approximation that has    *)
(*   at least four points and is convex or of solidity at least 0.85       *)
(*   (found_valid_approx);                                                 *)
(*   width, height: the sides of cv2.minAreaRect of the approximation.     *)
(***************************************************************************)
\* Variant of MaxAspect: 10:1 whether or not vertical documents are allowed.
MaxAspectVertical(allow_vertical) == 10

\* max_aspect = 10.0 if allow_vertical else 5.0
MaxAspect(allow_vertical) == IF allow_vertical THEN 10 ELSE 5

\* sorted(contours, key=cv2.contourArea, reverse=True)[:20]
LargestContours(contours) ==
    LET Rank(i) == 1 + Cardinality({j \in DOMAIN contours :
                                       contours[j].area > contours[i].area})
                     + Cardinality({j \in 1 .. i - 1 :
                                       contours[j].area = contours[i].area})
        sorted == [r \in DOMAIN contours |->
                      contours[CHOOSE i \in DOMAIN contours : Rank(i) = r]]
    IN  SubSeq(sorted, 1, Min2(20, Len(contours)))

\* the contour passes every "continue" of the loop body
PassesRelaxed(c, img, allow_vertical) ==
    /\ 50 * c.area >= img.w * img.h
    /\ c.approx
    /\ Min2(c.width, c.height) >= 10
    /\ Min2(c.width, c.height) >= 20
    /\ Max2(c.width, c.height)
          <= MaxAspect(allow_vertical) * Min2(c.width, c.height)

\* The loop from contour i on; best is the index of best_contour (0 for
\* None), the score of a contour is area / image_area.
RECURSIVE BestContourFrom(_, _, _, _, _)
BestContourFrom(cs, img, allow_vertical, i, best) ==
    IF i > Len(cs) THEN best
    ELSE BestContourFrom(cs, img, allow_vertical, i + 1,
             IF /\ PassesRelaxed(cs[i], img, allow_vertical)
                /\ (best = 0 \/ cs[i].area > cs[best].area)
             THEN i ELSE best)

\* <<>> for None, <<c>> for the contour returned
find_best_contour(contours, img, allow_vertical) ==
    LET cs == LargestContours(contours)
        best == BestContourFrom(cs, img, allow_vertical, 1, 0)
    IN  IF contours = <<>> \/ best = 0 THEN <<>> ELSE <<cs[best]>>

\* contours of a 400 x 300 image
FoundContours ==
    { [area |-> 60000, approx |-> TRUE, width |-> 300, height |-> 200],
      [area |-> 60000, approx |-> TRUE, width |-> 250, height |-> 240],
      \* 7:1
      [area |-> 17500, approx |-> TRUE, width |-> 350, height |-> 50],
      \* 12:1
      [area |-> 10800, approx |-> TRUE, width |-> 30, height |-> 360],
      \* no acceptable approximation
      [area |-> 20000, approx |-> FALSE, width |-> 200, height |-> 100],
      [area |-> 6000, approx |-> TRUE, width |-> 100, height |-> 60],
      \* less than 2% of the image
      [area |-> 1000, approx |-> TRUE, width |-> 40, height |-> 25],
      \* 15 px wide
      [area |-> 3000, approx |-> TRUE, width |-> 200, height |-> 15] }

find_best_contour_call ==
    /\ geo_call = NoCall
    /\ \E n \in 0 .. MaxContours :
       \E contours \in [1 .. n -> FoundContours], allow_vertical \in BOOLEAN :
          geo_call' = [fn |-> "_find_best_contour", contours |-> contours,
                       image |-> [w |-> 400, h |-> 300],
                       allow_vertical |-> allow_vertical,
                       out |-> find_best_contour(contours,
                                   [w |-> 400, h |-> 300], allow_vertical)]
    /\ UNCHANGED <<calibrationVars, cropVars, locVars, batchVars, sugVars>>

NextGeometry ==
    \/ order_points_call
    \/ transformer_order_points_call
    \/ manual_order_points_call
    \/ four_point_transform_call
    \/ validate_contour_call
    \/ find_best_contour_call

SpecGeometry == Init /\ [][NextGeometry]_vars

Next ==
    \/ load_images_from_folder
    \/ get_next_calibration_image
    \/ add_point
    \/ remove_last_point
    \/ clear_points
    \/ save_calibration

Spec == Init /\ [][Next]_vars

(***************************************************************************)
(* Properties of the calibration store.                                    *)
(***************************************************************************)
\* a step that is a successful save_calibration
Committed == ncommits' = ncommits + 1

\* the observation of the image being committed
ObservedAspect == Obs[current_image].aspect
ObservedArea == Obs[current_image].area

\* relative aspect deviation < 0.2 and relative area deviation < 0.3
WithinTolerance(cell) ==
    /\ Abs(cell.aspect_ratio - ObservedAspect) * 10
           < 2 * Max2(cell.aspect_ratio, ObservedAspect)
    /\ Abs(cell.document_area_ratio - ObservedArea) * 10
           < 3 * Max2(cell.document_area_ratio, ObservedArea)

MatchingCells ==
    {i \in DOMAIN calibration_cells : WithinTolerance(calibration_cells[i])}

\* cells of the store after the step that were not in it before
NewCells ==
    {j \in DOMAIN calibration_cells' :
        \A i \in DOMAIN calibration_cells :
            calibration_cells'[j] # calibration_cells[i]}

\* cells of the store before the step that are not in it afterwards
RemovedCells ==
    {i \in DOMAIN calibration_cells :
        \A j \in DOMAIN calibration_cells' :
            calibration_cells'[j] # calibration_cells[i]}

\* the step merged the committed sample into cell m
MergedInto(m) ==
    /\ Committed
    /\ Len(calibration_cells') = Len(calibration_cells)
    /\ calibration_cells'[m].commits = calibration_cells[m].commits + 1
    /\ \A i \in DOMAIN calibration_cells :
           i # m => calibration_cells'[i] = calibration_cells[i]

RECURSIVE CommitsHeld(_)
CommitsHeld(cs) ==
    IF cs = <<>> THEN 0 ELSE cs[1].commits + CommitsHeld(Tail(cs))

\* C1: after any sequence of save_calibration calls, successful or not, the
\* store never holds more than max_cells cells.
C1_StoreWithinCapacity == Len(calibration_cells) <= max_cells

\* a full store that has already evicted a cell, after a rejected commit
C1_Witness ==
    /\ Len(calibration_cells) = max_cells
    /\ ncommits > CommitsHeld(calibration_cells)
    /\ lastCommit = "rejected"

\* C2: a commit that matches a cell merges into a matching cell and leaves
\* the number of cells unchanged; a commit that matches no cell adds exactly
\* one new cell, which carries the observed aspect ratio and size category;
\* committing 1.41/0.5 and then 1.43/0.52 into a fresh store ends in a single
\* cell with sample count 2.
C2_MergeOrCreate ==
    [][Committed =>
        /\ MatchingCells # {} =>
              /\ Len(calibration_cells') = Len(calibration_cells)
              /\ \E m \in MatchingCells :
                    /\ MergedInto(m)
                    /\ calibration_cells'[m].calibration_samples
                           = calibration_cells[m].calibration_samples + 1
        /\ MatchingCells = {} =>
              /\ Cardinality(NewCells) = 1
              /\ \A j \in NewCells :
                    /\ calibration_cells'[j].aspect_ratio = ObservedAspect
                    /\ calibration_cells'[j].size_category
                           = determine_format(current_image)[2]
        /\ ( /\ Len(calibration_cells) = 1
             /\ calibration_cells[1].aspect_ratio = 141
             /\ calibration_cells[1].document_area_ratio = 50
             /\ calibration_cells[1].calibration_samples = 1
             /\ ObservedAspect = 143 /\ ObservedArea = 52 ) =>
              /\ Len(calibration_cells') = 1
              /\ calibration_cells'[1].calibration_samples = 2
    ]_vars

\* the store after 1.41/0.5 and 1.43/0.52 were committed into a fresh store
C2_Witness ==
    /\ ncommits = 2
    /\ lastCommit = "merged"
    /\ Len(calibration_cells) = 1
    /\ calibration_cells[1].aspect_ratio = 141
    /\ current_image = 2
    /\ calibration_cells[1].calibration_samples = 2

C4_ActiveProfileIsMostSampled ==
    [][Committed =>
        \E i \in DOMAIN calibration_cells' :
            /\ \A j \in DOMAIN calibration_cells' :
                   calibration_cells'[j].calibration_samples
                       <= calibration_cells'[i].calibration_samples
            /\ config' = [f \in DOMAIN config' |-> calibration_cells'[i][f]]
    ]_vars

\* two cells with different counts, the active profile being the first
C4_Witness ==
    /\ lastCommit = "merged"
    /\ Len(calibration_cells) >= 2
    /\ calibration_cells[1].calibration_samples
           > calibration_cells[Len(calibration_cells)].calibration_samples
    /\ config.calibration_samples = calibration_cells[1].calibration_samples
    /\ config.crop_points = calibration_cells[1].crop_points

\* the profile that the commit of the current image merges or stores
CommittedProfile == AnalyzeCalibrationImage(config, current_image)

\* the stored values of the cell equal those of the profile
SameStoredValues(cell, cfg) ==
    /\ cell.avg_color = cfg.avg_color
    /\ cell.avg_bg_color = cfg.avg_bg_color
    /\ cell.color_threshold = cfg.color_threshold
    /\ cell.edge_threshold = cfg.edge_threshold
    /\ cell.area_range = cfg.area_range
    /\ cell.aspect_ratio_range = cfg.aspect_ratio_range

\* the step merged a profile into cell m whose stored values equal it
IdenticalMerge(m) ==
    /\ MergedInto(m)
    /\ SameStoredValues(calibration_cells[m], CommittedProfile)

AveragesUnchanged(m) ==
    /\ calibration_cells'[m].avg_color = calibration_cells[m].avg_color
    /\ calibration_cells'[m].avg_bg_color = calibration_cells[m].avg_bg_color
    /\ calibration_cells'[m].color_threshold
           = calibration_cells[m].color_threshold
    /\ calibration_cells'[m].edge_threshold
           = calibration_cells[m].edge_threshold
    /\ calibration_cells'[m].calibration_samples
           = calibration_cells[m].calibration_samples + 1

\* C5 as stated: merging a profile into a cell whose stored values are
\* identical to it leaves colour means, thresholds and both ranges unchanged
\* and increases the sample count by 1.
C5_IdenticalMergeChangesNothing ==
    [][\A m \in DOMAIN calibration_cells :
          IdenticalMerge(m) =>
              /\ AveragesUnchanged(m)
              /\ calibration_cells'[m].area_range
                     = calibration_cells[m].area_range
              /\ calibration_cells'[m].aspect_ratio_range
                     = calibration_cells[m].aspect_ratio_range
    ]_vars

\* C5: merging a profile into a cell whose stored values are identical to it
\* leaves colour means and thresholds unchanged and increases the sample
\* count by 1, while area_range becomes (0.9 lo, 1.1 hi) and
\* aspect_ratio_range becomes (max(1.0, 0.9 lo), min(10.0, 1.1 hi)).
C5_IdenticalMergeWidensRanges ==
    [][\A m \in DOMAIN calibration_cells :
          IdenticalMerge(m) =>
              /\ AveragesUnchanged(m)
              /\ LET old == calibration_cells[m].area_range
                     new == calibration_cells'[m].area_range
                 IN  /\ old[1] % 10 = 0 /\ new[1] = 9 * (old[1] \div 10)
                     /\ old[2] % 10 = 0 /\ new[2] = 11 * (old[2] \div 10)
              /\ LET old == calibration_cells[m].aspect_ratio_range
                     new == calibration_cells'[m].aspect_ratio_range
                 IN  /\ old[1] % 10 = 0
                     /\ new[1] = Max2(RangeUnit, 9 * (old[1] \div 10))
                     /\ old[2] % 10 = 0
                     /\ new[2] = Min2(10 * RangeUnit, 11 * (old[2] \div 10))
    ]_vars

\* a cell created from the current image and then merged with the profile
\* of the same image
C5_Witness ==
    /\ lastCommit = "merged"
    /\ \E m \in DOMAIN calibration_cells :
          /\ calibration_cells[m].commits = 2
          /\ calibration_cells[m].crop_points = current_image
          /\ calibration_cells[m].avg_color = ColorOf(Obs[current_image].color)
          /\ calibration_cells[m].area_range[1]
                 < AreaRange(Obs[current_image].area)[1]

\* C6: a merge never narrows the bands: the new area_range and
\* aspect_ratio_range have a lower bound not greater than, and an upper bound
\* not less than, the cell's bounds before the merge.
C6_MergeNeverNarrows ==
    [][\A m \in DOMAIN calibration_cells :
          MergedInto(m) =>
              /\ calibration_cells'[m].area_range[1]
                     <= calibration_cells[m].area_range[1]
              /\ calibration_cells'[m].area_range[2]
                     >= calibration_cells[m].area_range[2]
              /\ calibration_cells'[m].aspect_ratio_range[1]
                     <= calibration_cells[m].aspect_ratio_range[1]
              /\ calibration_cells'[m].aspect_ratio_range[2]
                     >= calibration_cells[m].aspect_ratio_range[2]
    ]_vars

\* a cell merged with a profile of another image, its area band wider than
\* the band of either image
C6_Witness ==
    /\ lastCommit = "merged"
    /\ \E m \in DOMAIN calibration_cells :
          /\ calibration_cells[m].commits >= 2
          /\ calibration_cells[m].crop_points # current_image
          /\ calibration_cells[m].area_range[1]
                 < AreaRange(calibration_cells[m].document_area_ratio)[1]
          /\ calibration_cells[m].area_range[2]
                 > AreaRange(Obs[current_image].area)[2]

(***************************************************************************)
(* Properties of the manual-crop flow.                                     *)
(***************************************************************************)
\* a step that is a successful save_crop
CropSaved == manual_config'.samples_count = manual_config.samples_count + 1

StatedOrder ==
    << "_find_light_on_dark", "_find_document_edges", "_find_by_edges",
       "_find_by_color", "_find_by_texture",
       "_find_with_relaxed_constraints", "_find_any_large_rectangle" >>

\* the methods run so far that produced a candidate
Succeeded == {i \in DOMAIN loc_invoked : loc_invoked[i].found # <<>>}

AllSevenFailed == Len(loc_invoked) = 7 /\ Succeeded = {}

\* methods run in the stated order, each only after all earlier ones failed
InvokedInOrder ==
    \A i \in DOMAIN loc_invoked :
        /\ loc_invoked[i].method = StatedOrder[i]
        /\ \A j \in 1 .. i - 1 : loc_invoked[j].found = <<>>

ResultIsFirstSuccess ==
    \A i \in Succeeded :
        (\A j \in Succeeded : i <= j) => loc_result = loc_invoked[i].found

\* C8 as stated: the methods run in the fixed order, each only if all
\* earlier ones produced nothing; the result is the candidate of the first
\* method that succeeds; the result is null exactly when all seven fail.
C8_NullExactlyWhenAllSevenFail ==
    /\ InvokedInOrder
    /\ loc_pc = "returned" =>
          /\ ResultIsFirstSuccess
          /\ loc_result = <<>> <=> AllSevenFailed

\* C8: with a calibrated profile the methods run in the fixed order, each
\* only if all earlier ones produced nothing, the result is the candidate of
\* the first method that succeeds and it is null exactly when all seven
\* fail; with a profile whose calibrated flag is false the result is null
\* and no method is invoked.
C8_CascadeOnlyWhenCalibrated ==
    /\ InvokedInOrder
    /\ loc_pc = "returned" =>
          IF loc_profile[1].calibrated
          THEN /\ ResultIsFirstSuccess
               /\ loc_result = <<>> <=> AllSevenFailed
          ELSE /\ loc_result = <<>>
               /\ loc_invoked = <<>>

\* the fourth method succeeded after three failures
C8_Witness ==
    /\ loc_pc = "returned"
    /\ loc_profile[1].calibrated
    /\ Len(loc_invoked) = 4
    /\ loc_invoked[4].method = "_find_by_color"
    /\ loc_result # <<>>

\* C9: a returned quadrilateral is the expansion of the contour its method
\* found and is valid for the image: exactly 4 vertices, all inside the
\* image, no two closer than 5% of min(height, width), area at least 1% of
\* the image area.
C9_ReturnedQuadExpandedAndValid ==
    (loc_pc = "returned" /\ loc_result # <<>>) =>
        LET m == Min2(loc_image.h, loc_image.w)
            last == loc_invoked[Len(loc_invoked)]
        IN  /\ loc_result = expand_contour_slightly(last.raw, loc_image)
            /\ Len(loc_result) = 4
            /\ \A i \in 1 .. 4 :
                   /\ 0 <= loc_result[i][1] /\ loc_result[i][1] < loc_image.w
                   /\ 0 <= loc_result[i][2] /\ loc_result[i][2] < loc_image.h
            /\ \A i \in 1 .. 4 : \A j \in 1 .. 4 :
                   i # j => 400 * Dist2(loc_result[i], loc_result[j]) >= m * m
            /\ 100 * Abs(Shoelace2(loc_result))
                   >= 2 * loc_image.w * loc_image.h

\* the last method returned a quadrilateral that expansion moved and the
\* image border clipped
C9_Witness ==
    /\ loc_pc = "returned"
    /\ Len(loc_invoked) = 7
    /\ loc_result # <<>>
    /\ loc_result # loc_invoked[7].raw
    /\ \E i \in 1 .. 4 : loc_result[i][1] = loc_image.w - 1

\* C10 as stated: with a null profile or a profile that is not calibrated,
\* the locator raises no exception and no method reads a learned parameter.
C10_NoCrashWithoutCalibration ==
    (loc_profile = <<>> \/ ~loc_profile[1].calibrated) =>
        /\ loc_pc # "raised"
        /\ ~loc_consulted
        /\ loc_invoked = <<>>

\* the call with a null profile has raised
C10_Witness == loc_profile = <<>> /\ loc_pc = "raised"

(***************************************************************************)
(* Properties of cell selection.                                           *)
(***************************************************************************)
\* 1/(1 + 2*aspect_dev + 1.5*area_dev) * (1 + 0.1*sample_count) of cell i for
\* the observation being committed, as <<numerator, denominator>>
StatedScore(i) ==
    LET cell == calibration_cells[i]
        mA == Max2(cell.aspect_ratio, ObservedAspect)
        dA == Abs(cell.aspect_ratio - ObservedAspect)
        mR == Max2(cell.document_area_ratio, ObservedArea)
        dR == Abs(cell.document_area_ratio - ObservedArea)
    IN  << 2 * mA * mR * (10 + cell.calibration_samples),
           10 * (2 * mA * mR + 4 * dA * mR + 3 * dR * mA) >>

ScoreBelow(i, j) ==
    FracLess(StatedScore(i)[1], StatedScore(i)[2],
             StatedScore(j)[1], StatedScore(j)[2])

SameScore(i, j) == ~ScoreBelow(i, j) /\ ~ScoreBelow(j, i)

\* the returned cell matches and no matching cell scores higher; no cell
\* is returned exactly when none matches
ReturnsBestMatch(m) ==
    /\ (m = 0) <=> (MatchingCells = {})
    /\ m # 0 => /\ m \in MatchingCells
                /\ \A j \in MatchingCells : ~ScoreBelow(m, j)

\* C11 as stated: find_matching_cell returns no cell exactly when none
\* matches, otherwise a matching cell of maximal score, and of two matching
\* cells with equal score the one with the higher sample count.
C11_TieGoesToMoreSamples ==
    CanCommit =>
        /\ ReturnsBestMatch(MatchingCell)
        /\ \A j \in MatchingCells :
               SameScore(j, MatchingCell) =>
                   calibration_cells[j].calibration_samples
                       <= calibration_cells[MatchingCell].calibration_samples

\* C11: find_matching_cell returns no cell exactly when none matches,
\* otherwise a matching cell of maximal score, and of several matching
\* cells with that score the one that comes first in the store's list.
C11_TieGoesToFirstInList ==
    CanCommit =>
        /\ ReturnsBestMatch(MatchingCell)
        /\ \A j \in MatchingCells :
               SameScore(j, MatchingCell) => MatchingCell <= j

\* two matching cells with the same score and different sample counts
C11_Witness ==
    /\ CanCommit
    /\ \E i \in MatchingCells : \E j \in MatchingCells :
          /\ i < j
          /\ SameScore(i, j)
          /\ calibration_cells[i].calibration_samples
                 < calibration_cells[j].calibration_samples
          /\ MatchingCell = i

(***************************************************************************)
(* Properties of batch processing.                                         *)
(***************************************************************************)
\* the profile selection for the current file has just been made
ProfileSelected == batch_pc = "process" /\ batch_manager

EstimateOfFile == batch_files[batch_i].est

\* the score of cell i of the list the selection read, for the estimate
SelectionScore(i) ==
    get_match_score(batch_selected.cells[i],
                    EstimateOfFile.aspect, EstimateOfFile.area)

TopScoring ==
    {i \in DOMAIN batch_selected.cells :
        \A j \in DOMAIN batch_selected.cells :
            ~FracLess(SelectionScore(i)[1], SelectionScore(i)[2],
                      SelectionScore(j)[1], SelectionScore(j)[2])}

WithMostSamples ==
    {i \in DOMAIN batch_selected.cells :
        \A j \in DOMAIN batch_selected.cells :
            batch_selected.cells[j].calibration_samples
                <= batch_selected.cells[i].calibration_samples}

\* the heuristic produced an estimate and some cell scores above 0.3 for it
SomeScoreAboveThreshold ==
    /\ EstimateOfFile.kind = "quad"
    /\ \E i \in DOMAIN batch_selected.cells :
          10 * SelectionScore(i)[1] > 3 * SelectionScore(i)[2]

\* C12: get_best_calibration_for_image returns null exactly when the store
\* has no cell; otherwise it returns the profile of a cell of the store: a
\* best-scoring cell when its score exceeds 0.3, otherwise a cell with the
\* most samples.
C12_BestProfileFromStore ==
    ProfileSelected =>
        /\ (batch_selected.best = <<>>) <=> (batch_selected.cells = <<>>)
        /\ batch_selected.cells # <<>> =>
               \E i \in (IF SomeScoreAboveThreshold
                         THEN TopScoring ELSE WithMostSamples) :
                   batch_selected.best[1] = to_config(batch_selected.cells[i])

\* no cell scores above 0.3 and the best-scoring cell is not the one with
\* the most samples, whose profile is returned
C12_Witness ==
    /\ ProfileSelected
    /\ Len(batch_selected.cells) = 2
    /\ EstimateOfFile.kind = "quad"
    /\ ~SomeScoreAboveThreshold
    /\ TopScoring \cap WithMostSamples = {}
    /\ \E i \in WithMostSamples :
          batch_selected.best[1] = to_config(batch_selected.cells[i])

(***************************************************************************)
(* Properties of crop suggestions.                                         *)
(***************************************************************************)
SavedCrops == manual_config.crop_points_history

\* the positions of the most recent min(10, n) entries of the history
MostRecent == {k \in DOMAIN SavedCrops : k > Len(SavedCrops) - 10}

\* coordinate c of corner i of history entry k, as a fraction of the image
\* the crop was made on
SavedFraction(k, i, c) ==
    << Annotation[SavedCrops[k]].points[i][c],
       IF c = 1 THEN Annotation[SavedCrops[k]].w
       ELSE Annotation[SavedCrops[k]].h >>

\* entry k holds the t-th smallest of the recent values of corner i,
\* coordinate c
IsOrderStatistic(k, t, i, c) ==
    LET v == SavedFraction(k, i, c)
        below == {j \in MostRecent :
                     SavedFraction(j, i, c)[1] * v[2]
                         < v[1] * SavedFraction(j, i, c)[2]}
        upTo == {j \in MostRecent :
                    SavedFraction(j, i, c)[1] * v[2]
                        <= v[1] * SavedFraction(j, i, c)[2]}
    IN  Cardinality(below) < t /\ t <= Cardinality(upTo)

\* r is the median of the recent values of corner i, coordinate c, scaled
\* to size and truncated
IsScaledMedian(r, i, c, size) ==
    LET n == Cardinality(MostRecent)
    IN  \E k1 \in MostRecent : \E k2 \in MostRecent :
           /\ IsOrderStatistic(k1, (n + 1) \div 2, i, c)
           /\ IsOrderStatistic(k2, n \div 2 + 1, i, c)
           /\ LET a == SavedFraction(k1, i, c)
                  b == SavedFraction(k2, i, c)
                  num == a[1] * b[2] + b[1] * a[2]
                  den == 2 * a[2] * b[2]
              IN  r * den <= num * size /\ num * size < (r + 1) * den

\* C13: a suggestion is null only when the detection found nothing and the
\* history is empty; when the detection finds nothing or raises and the
\* history has an entry, the suggestion is four points, each coordinate the
\* median over the most recent min(10, n) history entries scaled to the
\* size of the current image.
C13_SuggestionFromRecentHistory ==
    (sug_pc = "returned" /\ sug_detect.image # None) =>
        /\ sug_result = <<>> =>
               (sug_detect.outcome # "found" /\ SavedCrops = <<>>)
        /\ (sug_detect.outcome # "found" /\ SavedCrops # <<>>) =>
               /\ Len(sug_result) = 4
               /\ \A i \in 1 .. 4 :
                      /\ IsScaledMedian(sug_result[i][1], i, 1,
                                        Annotation[sug_detect.image].w)
                      /\ IsScaledMedian(sug_result[i][2], i, 2,
                                        Annotation[sug_detect.image].h)

\* the detection raised and the history holds an eleventh entry that
\* differs from the most recent one
C13_Witness ==
    /\ sug_pc = "returned"
    /\ sug_detect.outcome = "error"
    /\ Len(SavedCrops) = 11
    /\ SavedCrops[1] # SavedCrops[11]
    /\ Len(sug_result) = 4

(***************************************************************************)
(* Properties of the manual crop history.                                  *)
(***************************************************************************)
\* C14: the crop history grows only by a successful save_crop, which appends
\* exactly one entry and leaves the earlier entries as they were; every
\* other operation leaves the history alone; samples_count is the number of
\* entries.
C14_HistoryAppendOnly ==
    [][LET before == manual_config.crop_points_history
           after == manual_config'.crop_points_history
       IN  /\ save_crop =>
                  /\ Len(after) = Len(before) + 1
                  /\ SubSeq(after, 1, Len(before)) = before
           /\ ~save_crop => after = before
           /\ manual_config'.samples_count = Len(after)]_vars

\* a second crop was saved after a skip, a suggestion query and a return to
\* the skipped image
C14_Witness ==
    /\ Len(manual_config.crop_points_history) = 2
    /\ manual_config.samples_count = 2
    /\ skipped_indices # {}
    /\ sug_pc = "returned"

(***************************************************************************)
(* Properties of the fallback after a detection miss.                      *)
(***************************************************************************)
\* the profile the processor holds (<<>> for None)
ProcessorProfile ==
    IF proc_config = <<>> THEN <<>> ELSE <<Deref(proc_config[1])>>

\* the step processes the current file, and find_document_auto returns None
\* for it
ProcessesMiss ==
    /\ batch_pc = "process"
    /\ batch_pc' = "loop"
    /\ ProcessorProfile # <<>>
    /\ ~(ProcessorProfile[1].calibrated /\ batch_files[batch_i].found)

\* the result of the step is the rectified stored crop, its points the
\* fractions of the profile times the size of the file, truncated
StoredCropRescaled ==
    LET r == batch_log'[Len(batch_log')]
        a == Annotation[ProcessorProfile[1].crop_points]
        file == batch_files[batch_i]
    IN  /\ r.outcome = "stored_crop"
        /\ \A i \in 1 .. 4 :
              /\ r.points[i][1] * a.w <= a.points[i][1] * file.w
              /\ a.points[i][1] * file.w < (r.points[i][1] + 1) * a.w
              /\ r.points[i][2] * a.h <= a.points[i][2] * file.h
              /\ a.points[i][2] * file.h < (r.points[i][2] + 1) * a.h

\* C15 as stated: on a detection miss the result is the stored crop rescaled
\* to the file when the profile holds crop points, and otherwise the
\* unmodified image.
C15_MissFallsBackToStoredCropOrOriginal ==
    [][ProcessesMiss =>
           IF ProcessorProfile[1].crop_points # None
           THEN StoredCropRescaled
           ELSE batch_log'[Len(batch_log')].outcome = "original"]_vars

\* C15: on a detection miss the result is the stored crop rescaled to the
\* file when the profile holds crop points; otherwise it is the rectified
\* quadrilateral of the search for any large rectangle when that search
\* finds one, and the unmodified image when it does not.  No result is an
\* exception.
C15_MissFallsBackToStoredCropThenRectangle ==
    [][ProcessesMiss =>
           IF ProcessorProfile[1].crop_points # None
           THEN StoredCropRescaled
           ELSE batch_log'[Len(batch_log')].outcome =
                    IF batch_files[batch_i].rect THEN "rectangle"
                    ELSE "original"]_vars

\* one file fell back to the stored crop, another to the search for any
\* large rectangle
C15_Witness ==
    /\ \E k \in DOMAIN batch_log : batch_log[k].outcome = "stored_crop"
    /\ \E k \in DOMAIN batch_log : batch_log[k].outcome = "rectangle"

(***************************************************************************)
(* Properties of the batch counters.                                       *)
(***************************************************************************)
Undecodable == {k \in DOMAIN batch_files : ~batch_files[k].decodes}

\* C16: when process_folder returns, processed + failed is the number of
\* enumerated files; a file that does not decode is counted as failed and
\* the loop goes on, so every file that decodes is processed, also after an
\* undecodable one.
C16_EveryFileCountedOnce ==
    batch_pc = "done" =>
        /\ stats.total = Len(batch_files)
        /\ stats.processed + stats.failed = Len(batch_files)
        /\ stats.failed = Cardinality(Undecodable)
        /\ Len(batch_log) = Len(batch_files)
        /\ \A k \in DOMAIN batch_files :
              batch_files[k].decodes <=> batch_log[k].outcome # "not_decoded"

\* a batch returned whose first file did not decode and whose second did
C16_Witness ==
    /\ batch_pc = "done"
    /\ Len(batch_files) = 2
    /\ ~batch_files[1].decodes
    /\ batch_files[2].decodes
    /\ stats.processed = 1

(***************************************************************************)
(* Properties of the per-image profile swap.                               *)
(***************************************************************************)
\* a step of the processing thread inside process_folder
BatchStep == batch_load \/ batch_select \/ batch_process \/ batch_return

\* C17: the per-image selection leaves shared state alone: no step of
\* process_folder changes the cells of the store, and after each item and
\* at return the processor holds the profile it held when process_folder
\* was called.
C17_SelectionLeavesSharedStateAlone ==
    [][BatchStep =>
           /\ calibration_cells' = calibration_cells
           /\ batch_pc' \in {"loop", "done"} => proc_config' = batch_entry]_vars

\* process_folder returned on a processor that was constructed without a
\* profile and now holds the copy selected for an image
C17_Witness ==
    /\ batch_pc = "done"
    /\ batch_entry = <<>>
    /\ proc_config # <<>>
    /\ proc_config[1].ref = "copy"

(***************************************************************************)
(* Properties of the store while a batch runs.                             *)
(***************************************************************************)
\* process_folder has been entered and has not returned
BatchRunning == batch_pc \in {"loop", "select", "process"}

\* C18: once batch processing has started the store is a read-only
\* snapshot: no step taken while process_folder runs changes the cells.
C18_StoreReadOnlyDuringBatch ==
    [][BatchRunning => calibration_cells' = calibration_cells]_vars

\* the processing thread selected a profile from a store with a cell, and
\* the store has been committed to since, before process_folder returned
C18_Witness ==
    /\ BatchRunning
    /\ batch_selected.cells # <<>>
    /\ batch_selected.cells # calibration_cells

(***************************************************************************)
(* Properties of the order of commits.                                     *)
(***************************************************************************)
\* the store after the images of seq were committed in that order to an
\* empty store, and the manager's profile then
RECURSIVE StoreAfter(_)
StoreAfter(seq) ==
    IF seq = <<>> THEN [cells |-> <<>>, config |-> CalibrationConfig]
    ELSE LET before == StoreAfter(SubSeq(seq, 1, Len(seq) - 1))
             s == seq[Len(seq)]
             analysed == AnalyzeCalibrationImage(before.config, s)
             cs == CommitCells(before.cells, analysed, s)
         IN  [cells |-> cs, config |-> update_main_config(analysed, cs)]

Reversed(seq) == [k \in 1 .. Len(seq) |-> seq[Len(seq) + 1 - k]]

\* the same cells, whatever their places in the list
SameCells(cs, ds) ==
    /\ Len(cs) = Len(ds)
    /\ {cs[i] : i \in DOMAIN cs} = {ds[i] : i \in DOMAIN ds}

\* C19: the store does not depend on the order of the commits: it holds
\* the cells that the same images committed in the opposite order give,
\* with the same sample counts and merged parameters.
C19_StoreIndependentOfOrder ==
    SameCells(calibration_cells, StoreAfter(Reversed(committed)).cells)

\* two different images were committed and merged into one cell, and the
\* opposite order gives another store
C19_Witness ==
    /\ Len(committed) = 2
    /\ committed[1] # committed[2]
    /\ Len(calibration_cells) = 1
    /\ calibration_cells[1].calibration_samples = 2
    /\ ~SameCells(calibration_cells, StoreAfter(Reversed(committed)).cells)

(***************************************************************************)
(* Properties of the tolerance bands of an analysed profile.               *)
(***************************************************************************)
\* both bounds of the band lie in [lo, hi], the lower not above the upper
BandWithin(band, lo, hi) ==
    /\ lo <= band[1]
    /\ band[1] <= band[2]
    /\ band[2] <= hi

\* the profiles as one analysis left them: the cells that were never
\* merged into
AnalysedProfiles ==
    {calibration_cells[i] : i \in {j \in DOMAIN calibration_cells :
                                       calibration_cells[j].calibration_samples = 1}}

\* C20: a profile derived by one analysis has its area band inside
\* [0.05, 0.95] and its aspect band inside [1.0, 10.0], each with its lower
\* bound not above its upper bound.
C20_BandsClampedAndOrdered ==
    \A p \in AnalysedProfiles :
        /\ BandWithin(p.area_range, 5 * Hundredth, 95 * Hundredth)
        /\ BandWithin(p.aspect_ratio_range, RangeUnit, 10 * RangeUnit)

\* the thin strip was analysed and committed: its cell holds the area band
\* (0.05, 0.03) and the aspect band (10.5, 10.0)
C20_Witness ==
    \E p \in AnalysedProfiles :
        /\ p.crop_points = 13
        /\ p.area_range[1] > p.area_range[2]
        /\ p.aspect_ratio_range[1] > 10 * RangeUnit

(***************************************************************************)
(* Properties of the sample counts.                                        *)
(***************************************************************************)
\* C25: the sample count of every cell is the number of commits that went
\* into the cell: 1 for the commit that created it and 1 for every merge.
C25_SampleCountIsCommitCount ==
    \A i \in DOMAIN calibration_cells :
        calibration_cells[i].calibration_samples = calibration_cells[i].commits

\* a cell that one commit created, after a commit to another cell, starts
\* with a sample count above 1
C25_Witness ==
    /\ ncommits = 2
    /\ Len(calibration_cells) = 2
    /\ calibration_cells[2].commits = 1
    /\ calibration_cells[2].calibration_samples = 2

(***************************************************************************)
(* Properties of the formats of the cells.                                 *)
(***************************************************************************)
\* the keys of cell j are within the tolerances of cell i: aspect ratios
\* less than 20% apart and area ratios less than 30% apart, relative to the
\* larger of the two (at least 0.1 and 0.01)
KeysWithinTolerance(i, j) ==
    LET a == calibration_cells[i].aspect_ratio
        b == calibration_cells[j].aspect_ratio
        r == calibration_cells[i].document_area_ratio
        q == calibration_cells[j].document_area_ratio
    IN  /\ 5 * (IF a > b THEN a - b ELSE b - a) < Max3(a, b, 10)
        /\ 10 * (IF r > q THEN r - q ELSE q - r) < 3 * Max3(r, q, 1)

\* C30: the cells of the store describe pairwise distinct formats: no cell
\* accepts the keys of another cell.
C30_CellsPairwiseDistinct ==
    \A i \in DOMAIN calibration_cells : \A j \in DOMAIN calibration_cells :
        i # j => ~KeysWithinTolerance(i, j)

\* three cells, one of them merged into: a sample was committed that an
\* older cell accepted and the newest did not
C30_Witness ==
    /\ Len(calibration_cells) >= 3
    /\ lastCommit = "merged"
    /\ \E i \in DOMAIN calibration_cells :
          /\ i < Len(calibration_cells)
          /\ calibration_cells[i].commits >= 2

(***************************************************************************)
(* Properties of the manual-crop review queue.                             *)
(***************************************************************************)
\* the step is a get_next_image or get_previous_image call that returns an
\* image
PresentsImage ==
    /\ get_next_image \/ get_previous_image
    /\ crop_current_index' < Len(crop_image_paths)

\* C27: an image that has been saved is not presented again: the saved and
\* the skipped indices stay disjoint, and neither get_next_image nor
\* get_previous_image returns an image whose index is among the saved ones.
C27_SavedNeverPresentedAgain ==
    [][/\ saved_indices' \cap skipped_indices' = {}
       /\ PresentsImage => crop_current_index' \notin saved_indices]_vars

\* both images of the folder are saved and the first one is on display
\* again, with no points
C27_Witness ==
    /\ crop_image_paths = <<1, 3>>
    /\ saved_indices = {0, 1}
    /\ crop_current_index = 0
    /\ crop_current_image = 1
    /\ crop_current_points = 0

\* get_next_image returns None
ReturnsNoImage ==
    /\ get_next_image
    /\ crop_current_index' >= Len(crop_image_paths)

AllSaved == \A k \in 0 .. Len(crop_image_paths) - 1 : k \in saved_indices

\* image k of the folder is the one on display
OnDisplay(k) ==
    /\ k < Len(crop_image_paths)
    /\ crop_current_index = k
    /\ crop_current_image = crop_image_paths[k + 1]

\* the queue has nothing left to present: get_next_image would return None
QueueComplete ==
    /\ FirstUnprocessed(crop_current_index) >= Len(crop_image_paths)
    /\ skipped_indices = {}

NotDecodedSoFar == {k \in DOMAIN batch_log : ~batch_files[k].decodes}

OrdersPoints ==
    geo_call.fn \in { "order_points", "PerspectiveTransformer.order_points",
                      "ManualCropManager._order_points" }

PointsOf(q) == {q[i] : i \in DOMAIN q}

\* C26: order_points returns a permutation of its four input points: for
\* pairwise distinct points, every input point is in the output and none
\* appears twice.
C26_OutputIsPermutation ==
    (OrdersPoints /\ Cardinality(PointsOf(geo_call.pts)) = 4) =>
        /\ Len(geo_call.out) = 4
        /\ PointsOf(geo_call.out) = PointsOf(geo_call.pts)

\* the square standing on a corner was ordered: its top corner is returned
\* twice and its left corner is missing
C26_Witness ==
    /\ geo_call.fn = "order_points"
    /\ geo_call.pts = << <<10, 0>>, <<20, 10>>, <<10, 20>>, <<0, 10>> >>
    /\ geo_call.out[1] = geo_call.out[2]
    /\ <<0, 10>> \notin PointsOf(geo_call.out)

\* no two points have the same coordinate sum or the same difference
TieFree(pts) ==
    \A i \in 1 .. 4 : \A j \in i + 1 .. 4 :
        /\ CoordSums(pts)[i] # CoordSums(pts)[j]
        /\ CoordDiffs(pts)[i] # CoordDiffs(pts)[j]

Reordered(pts) == {[i \in 1 .. 4 |-> pts[p[i]]] : p \in Permutations(1 .. 4)}

\* C21: order_points is idempotent, and, when no coordinate sums or
\* differences tie, every order of the same four points gives the same
\* result.
C21_IdempotentAndOrderIndependent ==
    geo_call.fn = "order_points" =>
        /\ order_points(geo_call.out) = geo_call.out
        /\ TieFree(geo_call.pts) =>
              \A q \in Reordered(geo_call.pts) : order_points(q) = geo_call.out

\* the trapezoid with two lower corners of equal difference was ordered
\* into TL, TR, BR, BL, and ordering the result again gives something else
C21_Witness ==
    /\ geo_call.fn = "order_points"
    /\ geo_call.out = << <<0, 0>>, <<10, 0>>, <<10, 20>>, <<0, 10>> >>
    /\ order_points(geo_call.out) # geo_call.out

\* the output size four_point_transform computes from the ordered corners
MeasuredSize(pts) ==
    LET rect == order_points(pts)
    IN  [w |-> Max2(EdgeLength(rect[3], rect[4]), EdgeLength(rect[2], rect[1])),
         h |-> Max2(EdgeLength(rect[2], rect[3]), EdgeLength(rect[1], rect[4]))]

\* C22: four_point_transform returns the input image, without raising,
\* whenever a computed dimension is below 10 px, and neither that decision
\* nor the output size depends on the profile's target_size.
C22_SmallQuadReturnedUnchanged ==
    geo_call.fn = "four_point_transform" =>
        /\ (MeasuredSize(geo_call.pts).w < 10 \/ MeasuredSize(geo_call.pts).h < 10)
              => geo_call.out.outcome = "unchanged"
        /\ \A profile \in GeoProfiles :
              LET other == four_point_transform(profile, geo_call.pts)
              IN  /\ other.outcome = geo_call.out.outcome
                  /\ other.w = geo_call.out.w
                  /\ other.h = geo_call.out.h

\* a processor without a profile was asked to rectify the 9 px strip and
\* raised
C22_Witness ==
    /\ geo_call.fn = "four_point_transform"
    /\ geo_call.profile = <<>>
    /\ MeasuredSize(geo_call.pts).w < 10
    /\ geo_call.out.outcome = "raised"

\* The angle test of order_points is decided by the rounded angles on every
\* call: the interval of the sum lies between 240 and 480.
AngleDecided ==
    OrdersPoints => /\ AngleSum(geo_call.out) >= 240
                    /\ AngleSum(geo_call.out) + 20 <= 480

(***************************************************************************)
(* Properties of validation and of the relaxed contour search.             *)
(***************************************************************************)
\* two vertices are closer than 5% of min(h, w)
HasCloseVertices(c, img) ==
    \E i \in 1 .. 4 : \E j \in i + 1 .. 4 :
        400 * Dist2(c[i], c[j]) < Min2(img.h, img.w) * Min2(img.h, img.w)

\* a vertex is not a pixel position of the image
HasVertexOutside(c, img) ==
    \E i \in 1 .. 4 :
        c[i][1] < 0 \/ c[i][1] >= img.w \/ c[i][2] < 0 \/ c[i][2] >= img.h

\* the enclosed area is below 1% of the image area
HasSmallArea(c, img) == 100 * Abs(Shoelace2(c)) < 2 * img.w * img.h

\* C23: _validate_contour returns false for every quadrilateral with two
\* vertices closer than 5% of min(h, w), with a vertex outside the image, or
\* with an area below 1% of the image area.
C23_ValidateRejects ==
    (geo_call.fn = "_validate_contour" /\ Len(geo_call.pts) = 4) =>
        ((\/ HasCloseVertices(geo_call.pts, geo_call.image)
          \/ HasVertexOutside(geo_call.pts, geo_call.image)
          \/ HasSmallArea(geo_call.pts, geo_call.image))
            => ~geo_call.out)

\* the small square, far enough apart and inside the image, was rejected
\* for its area alone
C23_Witness ==
    /\ geo_call.fn = "_validate_contour"
    /\ Len(geo_call.pts) = 4
    /\ HasSmallArea(geo_call.pts, geo_call.image)
    /\ ~HasCloseVertices(geo_call.pts, geo_call.image)
    /\ ~HasVertexOutside(geo_call.pts, geo_call.image)
    /\ ~geo_call.out

\* The candidates of a search: the contours for which the search produced a
\* quadrilateral to judge (at least 2% of the image, acceptably
\* approximated, at least 10 px wide).
SearchCandidates ==
    {i \in DOMAIN geo_call.contours :
        /\ 50 * geo_call.contours[i].area
               >= geo_call.image.w * geo_call.image.h
        /\ geo_call.contours[i].approx
        /\ Min2(geo_call.contours[i].width, geo_call.contours[i].height) >= 10}

\* the candidates that pass the minimum-size gate and the maximum-aspect
\* gate of relaxed mode
PassingCandidates ==
    {i \in SearchCandidates :
        LET c == geo_call.contours[i]
        IN  /\ Min2(c.width, c.height) >= 20
            /\ IF geo_call.allow_vertical
               THEN Max2(c.width, c.height) <= 10 * Min2(c.width, c.height)
               ELSE Max2(c.width, c.height) <= 5 * Min2(c.width, c.height)}

\* C24: in relaxed mode the search returns, among the candidates that pass
\* the minimum-size gate and the maximum-aspect gate (10:1 when vertical
\* documents are allowed, otherwise 5:1), one with the largest area ratio,
\* and returns None exactly when no candidate passes.
C24_RelaxedSearchPrefersLargest ==
    geo_call.fn = "_find_best_contour" =>
        /\ geo_call.out = <<>> <=> PassingCandidates = {}
        /\ geo_call.out # <<>> =>
              /\ \E i \in PassingCandidates :
                    geo_call.contours[i] = geo_call.out[1]
              /\ \A i \in PassingCandidates :
                    geo_call.contours[i].area <= geo_call.out[1].area

\* vertical documents were not allowed, the 7:1 contour came first and the
\* smaller of the two contours was returned
C24_Witness ==
    /\ geo_call.fn = "_find_best_contour"
    /\ ~geo_call.allow_vertical
    /\ Len(geo_call.contours) = 2
    /\ geo_call.contours[1].width = 350
    /\ geo_call.out # <<>>
    /\ geo_call.out[1] = geo_call.contours[2]
    /\ geo_call.out[1].area < geo_call.contours[1].area

====
